---- MODULE Spec2Model ----
(***************************************************************************)
(* Worktree lifecycle of git-worktree-cli (gwt): `gwt remove` and          *)
(* `gwt add`, with the project/config resolution they rely on.             *)
(*                                                                         *)
(* Representation.  A string is a sequence of tokens (a token is a run of  *)
(* characters the code never looks inside).  A path is a sequence of       *)
(* components, each component a string.  Option<T> is a sequence of length *)
(* 0 (None) or 1 (Some).                                                   *)
(***************************************************************************)
EXTENDS Integers, Sequences, FiniteSets, TLC

\* ------------------------------------------------------------------ bounds
MaxWorktrees == 3
MaxAddWorktrees == 2
MaxRuns == 2
MaxListWorktrees == 2
MaxRetryWorktrees == 1
MaxLines == 4

\* ----------------------------------------------------------------- options
NoneV == <<>>
Some(x) == <<x>>
IsSome(o) == Len(o) > 0
Unwrap(o) == o[1]

S(t) == <<t>>

\* ----------------------------------------------------------------- strings
Whitespace == {" ", "\n"}

RECURSIVE trim_start(_)
trim_start(s) ==
    IF Len(s) > 0 /\ s[1] \in Whitespace THEN trim_start(Tail(s)) ELSE s

RECURSIVE trim_end(_)
trim_end(s) ==
    IF Len(s) > 0 /\ s[Len(s)] \in Whitespace
    THEN trim_end(SubSeq(s, 1, Len(s) - 1))
    ELSE s

trim(s) == trim_end(trim_start(s))

to_lowercase(s) ==
    [i \in DOMAIN s |->
        CASE s[i] = "Y" -> "y"
          [] s[i] = "E" -> "e"
          [] s[i] = "S" -> "s"
          [] s[i] = "N" -> "n"
          [] s[i] = "O" -> "o"
          [] OTHER -> s[i]]

REFS_HEADS == "refs/heads/"

str_starts_with(s, tok) == Len(s) > 0 /\ s[1] = tok
str_ends_with(s, tok) == Len(s) > 0 /\ s[Len(s)] = tok

RECURSIVE trim_end_matches(_, _)
trim_end_matches(s, tok) ==
    IF str_ends_with(s, tok)
    THEN trim_end_matches(SubSeq(s, 1, Len(s) - 1), tok)
    ELSE s

\* core/project.rs clean_branch_name: trim, then strip one refs/heads/ prefix
clean_branch_name(branch) ==
    IF str_starts_with(trim(branch), REFS_HEADS)
    THEN Tail(trim(branch))
    ELSE trim(branch)

\* ------------------------------------------------- config file names (config.rs)
\* str::strip_prefix, for a prefix given as tokens
strip_prefix(s, prefix) ==
    IF Len(prefix) <= Len(s) /\ SubSeq(s, 1, Len(prefix)) = prefix
    THEN Some(SubSeq(s, Len(prefix) + 1, Len(s)))
    ELSE NoneV

\* str::replace of one character
RECURSIVE replace_char(_, _, _)
replace_char(s, from, to) ==
    IF Len(s) = 0 THEN <<>>
    ELSE <<IF s[1] = from THEN to ELSE s[1]>> \o replace_char(Tail(s), from, to)

\* str::split_once / splitn(2, _): None when the separator does not occur
RECURSIVE split_at(_, _, _)
split_at(s, sep, i) ==
    IF i > Len(s) THEN NoneV
    ELSE IF s[i] = sep THEN Some(<<SubSeq(s, 1, i - 1), SubSeq(s, i + 1, Len(s))>>)
    ELSE split_at(s, sep, i + 1)
split_once(s, sep) == split_at(s, sep, 1)

GIT_SUFFIX == ".git"
GIT_AT == "git@"
HTTPS == "https://"
HTTP == "http://"
GITHUB_HOST == <<"github", ".", "com">>
BITBUCKET_HOST == <<"bitbucket", ".", "org">>

\* (variant: the GitHub HTTPS form keeps its .git suffix)
extract_repo_identifier_https_keeps_suffix(url) ==
    LET cleaned(rest) == replace_char(trim_end_matches(rest, GIT_SUFFIX), "/", "_")
        gh_ssh == strip_prefix(url, <<GIT_AT>> \o GITHUB_HOST \o <<":">>)
        gh_https == strip_prefix(url, <<HTTPS>> \o GITHUB_HOST \o <<"/">>)
        bb_ssh == strip_prefix(url, <<GIT_AT>> \o BITBUCKET_HOST \o <<":">>)
        bb_https == strip_prefix(url, <<HTTPS>> \o BITBUCKET_HOST \o <<"/">>)
        ssh == strip_prefix(url, <<GIT_AT>>)
        without_protocol == IF IsSome(strip_prefix(url, <<HTTPS>>))
                            THEN strip_prefix(url, <<HTTPS>>)
                            ELSE strip_prefix(url, <<HTTP>>)
    IN IF IsSome(gh_ssh) THEN Some(<<"github_">> \o cleaned(Unwrap(gh_ssh)))
       ELSE IF IsSome(gh_https)
       THEN Some(<<"github_">> \o replace_char(Unwrap(gh_https), "/", "_"))
       ELSE IF IsSome(bb_ssh) THEN Some(<<"bitbucket_">> \o cleaned(Unwrap(bb_ssh)))
       ELSE IF IsSome(bb_https) THEN Some(<<"bitbucket_">> \o cleaned(Unwrap(bb_https)))
       ELSE IF IsSome(ssh) /\ IsSome(split_once(Unwrap(ssh), ":"))
       THEN LET parts == Unwrap(split_once(Unwrap(ssh), ":"))
            IN Some(replace_char(parts[1], ".", "_") \o <<"_">> \o cleaned(parts[2]))
       ELSE IF IsSome(without_protocol) /\ IsSome(split_once(Unwrap(without_protocol), "/"))
       THEN LET parts == Unwrap(split_once(Unwrap(without_protocol), "/"))
            IN Some(replace_char(parts[1], ".", "_") \o <<"_">> \o cleaned(parts[2]))
       ELSE NoneV

\* config.rs extract_repo_identifier
extract_repo_identifier(url) ==
    LET cleaned(rest) == replace_char(trim_end_matches(rest, GIT_SUFFIX), "/", "_")
        gh_ssh == strip_prefix(url, <<GIT_AT>> \o GITHUB_HOST \o <<":">>)
        gh_https == strip_prefix(url, <<HTTPS>> \o GITHUB_HOST \o <<"/">>)
        bb_ssh == strip_prefix(url, <<GIT_AT>> \o BITBUCKET_HOST \o <<":">>)
        bb_https == strip_prefix(url, <<HTTPS>> \o BITBUCKET_HOST \o <<"/">>)
        ssh == strip_prefix(url, <<GIT_AT>>)
        without_protocol == IF IsSome(strip_prefix(url, <<HTTPS>>))
                            THEN strip_prefix(url, <<HTTPS>>)
                            ELSE strip_prefix(url, <<HTTP>>)
    IN IF IsSome(gh_ssh) THEN Some(<<"github_">> \o cleaned(Unwrap(gh_ssh)))
       ELSE IF IsSome(gh_https) THEN Some(<<"github_">> \o cleaned(Unwrap(gh_https)))
       ELSE IF IsSome(bb_ssh) THEN Some(<<"bitbucket_">> \o cleaned(Unwrap(bb_ssh)))
       ELSE IF IsSome(bb_https) THEN Some(<<"bitbucket_">> \o cleaned(Unwrap(bb_https)))
       ELSE IF IsSome(ssh) /\ IsSome(split_once(Unwrap(ssh), ":"))
       THEN LET parts == Unwrap(split_once(Unwrap(ssh), ":"))
            IN Some(replace_char(parts[1], ".", "_") \o <<"_">> \o cleaned(parts[2]))
       ELSE IF IsSome(without_protocol) /\ IsSome(split_once(Unwrap(without_protocol), "/"))
       THEN LET parts == Unwrap(split_once(Unwrap(without_protocol), "/"))
            IN Some(replace_char(parts[1], ".", "_") \o <<"_">> \o cleaned(parts[2]))
       ELSE NoneV

\* config.rs sanitize_for_filename: alphanumerics, _ and - are kept, any other
\* character becomes _, then the whole is lower-cased
NotFilenameChars == {".", "/", ":", "@", " ", "\n"}
sanitize_for_filename(s) ==
    to_lowercase([i \in DOMAIN s |-> IF s[i] \in NotFilenameChars THEN "_" ELSE s[i]])

\* config.rs short_hash: 12 hex digits of a hash of the URL
short_hash(s) == <<"hash(">> \o s \o <<")">>

\* config.rs generate_config_filename
generate_config_filename(repo_url) ==
    IF IsSome(extract_repo_identifier(repo_url))
    THEN sanitize_for_filename(Unwrap(extract_repo_identifier(repo_url))) \o <<".jsonc">>
    ELSE <<"url_">> \o short_hash(repo_url) \o <<".jsonc">>

PROTECTED_BRANCHES_master_only == {S("master")}
PROTECTED_BRANCHES == {S("main"), S("master"), S("dev"), S("develop")}

\* ------------------------------------------------------------------- paths
path_starts_with(p, base) ==
    Len(base) <= Len(p) /\ SubSeq(p, 1, Len(base)) = base

file_name(p) == IF Len(p) = 0 THEN NoneV ELSE Some(p[Len(p)])
parent(p) == IF Len(p) = 0 THEN NoneV ELSE Some(SubSeq(p, 1, Len(p) - 1))
join(p, name) == Append(p, name)

\* Path::ancestors(): the path itself, then each parent up to the root
ancestors(p) == [i \in 1..(Len(p) + 1) |-> SubSeq(p, 1, Len(p) + 1 - i)]

RECURSIVE path_to_str(_)
path_to_str(p) ==
    IF Len(p) = 0 THEN <<>> ELSE path_to_str(SubSeq(p, 1, Len(p) - 1)) \o <<"/">> \o p[Len(p)]

\* -------------------------------------------------------- the path universe
WORKTREES_SUFFIX == "-worktrees"
P == <<S("p")>>
PMain == <<S("p"), S("main")>>
PNested == <<S("p"), S("a")>>
PW == << <<"p", WORKTREES_SUFFIX>> >>
PWA == join(PW, S("a"))
PWB == join(PW, S("b"))
PWASrc == join(PWA, S("src"))
Outside == <<S("tmp")>>

MainPaths == {P}
LinkedPaths == {PWA, PWB, PNested}
Cwds == {P, PMain, PNested, PWA, PWASrc, Outside}

BranchNames == {S("main"), S("a"), S("b")}
Ref(name) == <<REFS_HEADS>> \o name
\* an object id, abbreviated to its first 10 hex digits
Head40 == <<"c", "0", "f", "f", "e", "e", "1", "2", "3", "4">>

\* git.rs PartialWorktree: one block of `git worktree list --porcelain`
PartialWorktree(path, head, branch, bare) ==
    [path |-> path, head |-> head, branch |-> branch, bare |-> bare]

\* ------------------------------------------------------------ configuration
\* config.rs GitWorktreeConfig / Hooks (the fields the lifecycle reads)
Hooks(post_add, pre_remove, post_remove) ==
    [post_add |-> post_add, pre_remove |-> pre_remove, post_remove |-> post_remove]

GitWorktreeConfig(main_branch, project_path, worktrees_path, hooks) ==
    [main_branch |-> main_branch, project_path |-> project_path,
     worktrees_path |-> worktrees_path, hooks |-> hooks]

VAR_BRANCH == "${branchName}"
VAR_PATH == "${worktreePath}"
HookPostAdd == <<"setup ", VAR_PATH>>
HookPreRemove == <<"backup ", VAR_BRANCH>>
HookPostRemove1 == <<"echo ", VAR_BRANCH, " ", VAR_PATH>>
HookPostRemove2 == <<"cleanup ", VAR_PATH>>

AllHooks ==
    Hooks(Some(<<HookPostAdd>>), Some(<<HookPreRemove>>),
          Some(<<HookPostRemove1, HookPostRemove2>>))

\* a config file's content: None when it does not parse
CfgHooks == Some(GitWorktreeConfig(S("main"), Some(P), NoneV, Some(AllHooks)))
CfgGlobal == Some(GitWorktreeConfig(S("main"), Some(P), NoneV, Some(AllHooks)))
CfgPlain == Some(GitWorktreeConfig(S("dev"), NoneV, NoneV, NoneV))
CfgCorrupt == NoneV

ConfigFile(dir, content) == [dir |-> dir, content |-> content]

\* the global registry ~/.config/git-worktree-cli/projects: one file per
\* project, named after its repository URL
CONFIG_FILENAME == S("git-worktree-config.jsonc")
PROJECTS_DIR == <<S("~"), S(".config"), S("git-worktree-cli"), S("projects")>>
RegistryFile(name, content) == [name |-> name, content |-> content]
\* the origin of the repository in the universe, and another project's URL
OriginUrl == <<GIT_AT>> \o GITHUB_HOST \o <<":", "o", "/", "r", GIT_SUFFIX>>
OtherUrl == <<HTTPS>> \o BITBUCKET_HOST \o <<"/", "o", "/", "n", GIT_SUFFIX>>
Registry(global) ==
    IF IsSome(global)
    THEN <<RegistryFile(generate_config_filename(OriginUrl), Unwrap(global))>>
    ELSE <<>>

\* the configuration set-ups an invocation may find on disk:
\* local files (directory that holds git-worktree-config.jsonc) and the
\* content of the global registry's file for the origin URL
ConfigScenarios ==
    { [local |-> {}, global |-> NoneV],
      [local |-> {ConfigFile(P, CfgHooks)}, global |-> NoneV],
      [local |-> {ConfigFile(P, CfgCorrupt)}, global |-> NoneV],
      [local |-> {}, global |-> Some(CfgGlobal)] }

\* for add, also a config kept inside the main checkout, without hooks
AddConfigScenarios ==
    ConfigScenarios \cup {[local |-> {ConfigFile(PMain, CfgPlain)}, global |-> NoneV]}

VARIABLES
    gitWorktrees,        \* git's worktree bookkeeping: the blocks `worktree list` prints
    localBranches,       \* names under refs/heads
    remoteBranches,      \* names under refs/remotes/origin
    dirs,                \* directories that exist
    configFiles,         \* local config files
    globalConfig,        \* the global registry's files, in read_dir order
    cwd,                 \* the process's current directory
    pc,                  \* position of the running command
    op,                  \* "remove" | "add"
    branch_name,         \* argument of the command
    worktrees,           \* remove::run local
    target_worktree,     \* remove::run local (Option)
    branch_display,      \* remove::run local
    will_remove_current, \* remove::run local
    project_root,        \* run local (Option)
    git_working_dir,     \* run local (Option): a Worktree in remove, a path in add
    add,                 \* add::run locals
    listRun,             \* list::run locals
    initRun,             \* init::run arguments and locals
    parser,              \* parse_worktree_list: its input and locals
    gitFiles,            \* .git files of worktrees whose repository is not gitWorktrees
    log,                 \* external effects of this run, in order
    result               \* "running" | "ok" | "err"

env == <<gitWorktrees, localBranches, remoteBranches, dirs, configFiles, globalConfig>>
removeLocals == <<worktrees, target_worktree, branch_display, will_remove_current>>
vars == <<env, cwd, pc, op, branch_name, removeLocals, project_root,
          git_working_dir, add, listRun, initRun, parser, gitFiles, log, result>>

\* Iterator::find
RECURSIVE find_from(_, _, _)
find_from(list, Pred(_), i) ==
    IF i > Len(list) THEN NoneV
    ELSE IF Pred(list[i]) THEN Some(list[i])
    ELSE find_from(list, Pred, i + 1)

find(list, Pred(_)) == find_from(list, Pred, 1)

\* ---------------------------------------------------------- filesystem probes
\* kind of <d>/.git: the first block is the repository itself (a .git
\* directory: the main working tree, or a bare repository kept in <d>/.git),
\* every other block is a linked worktree (.git file)
GitKind(d) ==
    IF \E f \in gitFiles : f.dir = d THEN "file"
    ELSE IF \E i \in DOMAIN gitWorktrees : gitWorktrees[i].path = d
    THEN IF gitWorktrees[1].path = d THEN "dir" ELSE "file"
    ELSE "none"

git_exists(d) == d \in dirs /\ GitKind(d) # "none"
IsBareRepo(d) == Len(gitWorktrees) > 0 /\ gitWorktrees[1].path = d /\ gitWorktrees[1].bare

subdirs(d) == {x \in dirs : Len(x) = Len(d) + 1 /\ path_starts_with(x, d)}

\* git.rs get_git_root: `git rev-parse --show-toplevel` in the process's cwd
RECURSIVE nearest_git(_)
nearest_git(d) ==
    IF git_exists(d) THEN Some(d)
    ELSE IF Len(d) = 0 THEN NoneV
    ELSE nearest_git(SubSeq(d, 1, Len(d) - 1))

\* (fails outside a repository and in a bare repository, which has no work tree)
get_git_root ==
    IF cwd \in dirs /\ IsSome(nearest_git(cwd)) /\ ~IsBareRepo(Unwrap(nearest_git(cwd)))
    THEN nearest_git(cwd)
    ELSE NoneV

\* git.rs get_remote_origin_url: succeeds inside any repository
get_remote_origin_url(d) ==
    IF d \in dirs /\ IsSome(nearest_git(d)) THEN Some(OriginUrl) ELSE NoneV

\* git.rs PartialWorktree::into_worktree: a block needs a path and a HEAD
into_worktree(partial) ==
    IF IsSome(partial.head)
    THEN Some([path |-> partial.path, head |-> Unwrap(partial.head),
               branch |-> partial.branch, bare |-> partial.bare])
    ELSE NoneV

\* git.rs list_worktrees / parse_worktree_list, on the blocks git prints
RECURSIVE parse_blocks(_)
parse_blocks(blocks) ==
    IF Len(blocks) = 0 THEN <<>>
    ELSE into_worktree(blocks[1]) \o parse_blocks(Tail(blocks))

list_worktrees == parse_blocks(gitWorktrees)

\* git.rs parse_worktree_line, on one line of `git worktree list --porcelain`
WORKTREE_PREFIX == "worktree "
HEAD_PREFIX == "HEAD "
BRANCH_PREFIX == "branch "
BARE_LINE == <<"bare">>

\* PathBuf::from: the components between the / separators
RECURSIVE path_from_str(_)
path_from_str(text) ==
    IF Len(text) = 0 THEN <<>>
    ELSE IF IsSome(split_once(text, "/"))
    THEN (IF Len(Unwrap(split_once(text, "/"))[1]) = 0
          THEN <<>> ELSE <<Unwrap(split_once(text, "/"))[1]>>)
         \o path_from_str(Unwrap(split_once(text, "/"))[2])
    ELSE <<text>>

parse_worktree_line(line) ==
    IF IsSome(strip_prefix(line, <<WORKTREE_PREFIX>>))
    THEN [kind |-> "New", value |-> path_from_str(Unwrap(strip_prefix(line, <<WORKTREE_PREFIX>>)))]
    ELSE IF IsSome(strip_prefix(line, <<HEAD_PREFIX>>))
    THEN [kind |-> "Head", value |-> Unwrap(strip_prefix(line, <<HEAD_PREFIX>>))]
    ELSE IF IsSome(strip_prefix(line, <<BRANCH_PREFIX>>))
    THEN [kind |-> "Branch", value |-> Unwrap(strip_prefix(line, <<BRANCH_PREFIX>>))]
    ELSE IF line = BARE_LINE THEN [kind |-> "Bare", value |-> <<>>]
    ELSE [kind |-> "Other", value |-> <<>>]

\* the end of a partial entry: pushed when it has a path and a HEAD
flush(current_worktree) ==
    IF IsSome(current_worktree) THEN into_worktree(Unwrap(current_worktree)) ELSE <<>>

\* (variant: a line that is not understood ends the current entry)
parse_line_other_resets(st, line) ==
    LET parsed == parse_worktree_line(line)
        current == Unwrap(st.current_worktree)
    IN CASE parsed.kind = "New" ->
              [st EXCEPT !.worktrees = @ \o flush(st.current_worktree),
                         !.current_worktree =
                             Some(PartialWorktree(parsed.value, NoneV, NoneV, FALSE))]
         [] parsed.kind = "Head" /\ IsSome(st.current_worktree) ->
              [st EXCEPT !.current_worktree = Some([current EXCEPT !.head = Some(parsed.value)])]
         [] parsed.kind = "Branch" /\ IsSome(st.current_worktree) ->
              [st EXCEPT !.current_worktree = Some([current EXCEPT !.branch = Some(parsed.value)])]
         [] parsed.kind = "Bare" /\ IsSome(st.current_worktree) ->
              [st EXCEPT !.current_worktree = Some([current EXCEPT !.bare = TRUE])]
         [] OTHER -> [st EXCEPT !.current_worktree = NoneV]

\* git.rs parse_worktree_list, lines 167-196: the loop body for one line
parse_line(st, line) ==
    LET parsed == parse_worktree_line(line)
        current == Unwrap(st.current_worktree)
    IN CASE parsed.kind = "New" ->
              [st EXCEPT !.worktrees = @ \o flush(st.current_worktree),
                         !.current_worktree =
                             Some(PartialWorktree(parsed.value, NoneV, NoneV, FALSE))]
         [] parsed.kind = "Head" /\ IsSome(st.current_worktree) ->
              [st EXCEPT !.current_worktree = Some([current EXCEPT !.head = Some(parsed.value)])]
         [] parsed.kind = "Branch" /\ IsSome(st.current_worktree) ->
              [st EXCEPT !.current_worktree = Some([current EXCEPT !.branch = Some(parsed.value)])]
         [] parsed.kind = "Bare" /\ IsSome(st.current_worktree) ->
              [st EXCEPT !.current_worktree = Some([current EXCEPT !.bare = TRUE])]
         [] OTHER -> st

\* -------------------------------------------------------------- find_config
\* results: [ok, found, path, config]; ok = FALSE is Err (a file that does
\* not parse)
CfgErr == [ok |-> FALSE, found |-> FALSE, path |-> NoneV, config |-> NoneV]
CfgNotFound == [ok |-> TRUE, found |-> FALSE, path |-> NoneV, config |-> NoneV]
CfgLoad(path, content) ==
    IF IsSome(content)
    THEN [ok |-> TRUE, found |-> TRUE, path |-> Some(path), config |-> content]
    ELSE CfgErr

config_at(d) == {f \in configFiles : f.dir = d}
config_exists(d) == d \in dirs /\ config_at(d) # {}
config_content(d) == (CHOOSE f \in config_at(d) : TRUE).content

\* config.rs find_local_config: walk up, <dir>/<file> then <dir>/main/<file>
RECURSIVE find_local_config(_)
find_local_config(current_dir) ==
    IF config_exists(current_dir)
    THEN CfgLoad(join(current_dir, CONFIG_FILENAME), config_content(current_dir))
    ELSE IF config_exists(join(current_dir, S("main")))
    THEN CfgLoad(join(join(current_dir, S("main")), CONFIG_FILENAME),
                 config_content(join(current_dir, S("main"))))
    ELSE IF Len(current_dir) = 0 THEN CfgNotFound
    ELSE find_local_config(SubSeq(current_dir, 1, Len(current_dir) - 1))

\* config.rs find_global_config, lines 173-187: the first file of the
\* registry that loads and whose project_path contains start_dir
matches_project_path(file, start_dir) ==
    /\ IsSome(file.content)
    /\ IsSome(Unwrap(file.content).project_path)
    /\ path_starts_with(start_dir, Unwrap(Unwrap(file.content).project_path))

\* config.rs find_global_config: by origin URL, then by project_path containment
find_global_config(start_dir) ==
    LET Named(file) ==
            /\ IsSome(get_remote_origin_url(start_dir))
            /\ file.name = generate_config_filename(Unwrap(get_remote_origin_url(start_dir)))
        Containing(file) == matches_project_path(file, start_dir)
        by_url == find(globalConfig, Named)
        by_path == find(globalConfig, Containing)
    IN IF IsSome(by_url)
       THEN CfgLoad(join(PROJECTS_DIR, Unwrap(by_url).name), Unwrap(by_url).content)
       ELSE IF IsSome(by_path)
       THEN CfgLoad(join(PROJECTS_DIR, Unwrap(by_path).name), Unwrap(by_path).content)
       ELSE CfgNotFound

\* (variant: the registry is asked before the local walk)
find_config_global_first ==
    IF cwd \notin dirs THEN CfgErr
    ELSE IF ~find_global_config(cwd).ok THEN CfgErr
    ELSE IF find_global_config(cwd).found THEN find_global_config(cwd)
    ELSE find_local_config(cwd)

\* config.rs find_config: current_dir()?, local first, then global
find_config ==
    IF cwd \notin dirs THEN CfgErr
    ELSE IF ~find_local_config(cwd).ok THEN CfgErr
    ELSE IF find_local_config(cwd).found THEN find_local_config(cwd)
    ELSE find_global_config(cwd)

\* ----------------------------------------------------------- ProjectLocator
has_git_subdir(d) == \E x \in subdirs(d) : git_exists(x)

\* core/project.rs find_main_project_from_worktree /
\* find_main_project_from_worktrees_path (same body): first ancestor named
\* *-worktrees whose sibling <name> has .git itself or in an immediate subdirectory
RECURSIVE main_project_from(_, _)
main_project_from(anc, i) ==
    IF i > Len(anc) THEN NoneV
    ELSE LET a == anc[i]
             name == file_name(a)
             main_project ==
                 join(Unwrap(parent(a)), trim_end_matches(Unwrap(name), WORKTREES_SUFFIX))
         IN IF IsSome(name) /\ str_ends_with(Unwrap(name), WORKTREES_SUFFIX)
               /\ (git_exists(main_project)
                   \/ (main_project \in dirs /\ has_git_subdir(main_project)))
            THEN Some(main_project)
            ELSE main_project_from(anc, i + 1)

find_main_project_from_worktree(worktree_path) ==
    main_project_from(ancestors(worktree_path), 1)

\* core/project.rs find_project_root_from; None is the "not a project" error
find_project_root_from(start_path) ==
    IF IsSome(get_git_root)
    THEN IF IsSome(find_main_project_from_worktree(Unwrap(get_git_root)))
         THEN find_main_project_from_worktree(Unwrap(get_git_root))
         ELSE get_git_root
    ELSE IF IsSome(find_main_project_from_worktree(start_path))
    THEN find_main_project_from_worktree(start_path)
    ELSE IF find_config.ok /\ find_config.found
            /\ IsSome(Unwrap(find_config.config).project_path)
    THEN Unwrap(find_config.config).project_path
    ELSE NoneV

\* core/project.rs find_project_root: current_dir()? then find_project_root_from
find_project_root ==
    IF cwd \notin dirs THEN NoneV ELSE find_project_root_from(cwd)

\* core/project.rs find_git_directory_from: the set of directories read_dir's
\* enumeration order can make it return; empty = Err
find_git_directory_from(root) ==
    IF git_exists(root) THEN {root}
    ELSE IF root \notin dirs THEN {}
    ELSE {x \in subdirs(root) : git_exists(x)}

\* (variant: the first candidate with any .git entry is returned)
find_existing_worktree_first_found(root) ==
    IF git_exists(root) THEN {root}
    ELSE IF root \notin dirs THEN {}
    ELSE {x \in subdirs(root) : git_exists(x)}

\* core/project.rs find_existing_worktree: same convention
find_existing_worktree(root) ==
    IF git_exists(root) /\ GitKind(root) = "file" THEN {root}
    ELSE IF root \notin dirs THEN {}
    ELSE IF \E x \in subdirs(root) : git_exists(x) /\ GitKind(x) = "file"
    THEN {x \in subdirs(root) : git_exists(x) /\ GitKind(x) = "file"}
    ELSE IF \E x \in subdirs(root) : git_exists(x)
    THEN {x \in subdirs(root) : git_exists(x)}
    ELSE IF git_exists(root) THEN {root}
    ELSE {}

\* the administrative directory <main>/.git/worktrees/<name> of the i-th block
AdminDir(i) ==
    join(join(join(gitWorktrees[1].path, S(".git")), S("worktrees")),
         Unwrap(file_name(gitWorktrees[i].path)))

\* Path::exists, for a directory of the tree or inside the repository's .git
path_exists(p) ==
    \/ p \in dirs
    \/ /\ Len(gitWorktrees) > 0 /\ gitWorktrees[1].path \in dirs
       /\ \E i \in 2..Len(gitWorktrees) : p = AdminDir(i)

\* fs::read_to_string(<d>/.git): Option of the lines of the file
GITDIR_PREFIX == "gitdir: "
read_git_file(d) ==
    IF \E f \in gitFiles : f.dir = d
    THEN (CHOOSE f \in gitFiles : f.dir = d).content
    ELSE Some(<< <<GITDIR_PREFIX>> \o
                 path_to_str(AdminDir(CHOOSE i \in DOMAIN gitWorktrees :
                                          gitWorktrees[i].path = d)) >>)

RECURSIVE trim_start_matches(_, _)
trim_start_matches(s, tok) ==
    IF str_starts_with(s, tok) THEN trim_start_matches(Tail(s), tok) ELSE s

\* (variant: a .git file that cannot be read or names no gitdir is orphaned)
is_orphaned_worktree_fail_closed(path) ==
    IF ~(path \in dirs /\ GitKind(path) = "file") THEN FALSE
    ELSE IF ~IsSome(read_git_file(path)) THEN TRUE
    ELSE IF ~IsSome(find(Unwrap(read_git_file(path)),
                         LAMBDA line : str_starts_with(line, GITDIR_PREFIX)))
    THEN TRUE
    ELSE ~path_exists(path_from_str(trim(trim_start_matches(
              Unwrap(find(Unwrap(read_git_file(path)),
                          LAMBDA line : str_starts_with(line, GITDIR_PREFIX))),
              GITDIR_PREFIX))))

\* core/project.rs is_orphaned_worktree
is_orphaned_worktree(path) ==
    IF ~(path \in dirs /\ GitKind(path) = "file") THEN FALSE
    ELSE IF ~IsSome(read_git_file(path)) THEN FALSE
    ELSE IF ~IsSome(find(Unwrap(read_git_file(path)),
                         LAMBDA line : str_starts_with(line, GITDIR_PREFIX)))
    THEN FALSE
    ELSE ~path_exists(path_from_str(trim(trim_start_matches(
              Unwrap(find(Unwrap(read_git_file(path)),
                          LAMBDA line : str_starts_with(line, GITDIR_PREFIX))),
              GITDIR_PREFIX))))

\* core/project.rs find_valid_git_directory: the set of directories read_dir's
\* enumeration order can make it return; empty = Err
find_valid_git_directory(root) ==
    IF root \in dirs /\ GitKind(root) = "dir" THEN {root}
    ELSE IF root \notin dirs THEN {}
    ELSE {x \in subdirs(root) :
            \/ GitKind(x) = "dir"
            \/ GitKind(x) = "file" /\ ~is_orphaned_worktree(x)}

\* --------------------------------------------------------------- the run log
Ev(cmd, a, b, dir, out) == [cmd |-> cmd, a |-> a, b |-> b, dir |-> dir, out |-> out]
NoDir == <<>>

Finish(r) == pc' = "done" /\ result' = r

\* ------------------------------------------------------------- WorktreeRegistry
get_branch_display_raw(worktree) ==
    IF IsSome(worktree.branch) THEN Unwrap(worktree.branch) ELSE S("(bare)")

\* commands/remove.rs get_branch_display
get_branch_display(worktree) ==
    IF IsSome(worktree.branch) THEN clean_branch_name(Unwrap(worktree.branch))
    ELSE IF worktree.bare THEN S("(bare)")
    ELSE SubSeq(worktree.head, 1, IF Len(worktree.head) < 8 THEN Len(worktree.head) ELSE 8)

\* commands/remove.rs find_by_branch_name
find_by_branch_name(list, target_branch) ==
    LET Match(wt) == IsSome(wt.branch)
                     /\ clean_branch_name(Unwrap(wt.branch)) = target_branch
    IN find(list, Match)

\* commands/remove.rs find_by_path_name
find_by_path_name(list, target_branch) ==
    LET Match(wt) == IsSome(file_name(wt.path))
                     /\ Unwrap(file_name(wt.path)) = target_branch
    IN find(list, Match)

find_worktree_by_branch_path_first(list, target_branch) ==
    IF IsSome(find_by_path_name(list, target_branch))
    THEN find_by_path_name(list, target_branch)
    ELSE find_by_branch_name(list, target_branch)

\* commands/remove.rs find_worktree_by_branch (None = bail after listing)
find_worktree_by_branch(list, target_branch) ==
    IF IsSome(find_by_branch_name(list, target_branch))
    THEN find_by_branch_name(list, target_branch)
    ELSE find_by_path_name(list, target_branch)

\* commands/remove.rs find_current_worktree
find_current_worktree(list) ==
    LET Match(wt) == path_starts_with(cwd, wt.path)
    IN find(list, Match)

\* commands/remove.rs find_target_worktree
find_target_worktree(list, name) ==
    IF IsSome(name) THEN find_worktree_by_branch(list, Unwrap(name))
    ELSE find_current_worktree(list)

\* commands/remove.rs run, lines 65-85: the worktree git runs in
is_main_branch_worktree(wt) ==
    IsSome(wt.branch)
    /\ (IF str_starts_with(Unwrap(wt.branch), REFS_HEADS)
        THEN Tail(Unwrap(wt.branch))
        ELSE Unwrap(wt.branch)) \in PROTECTED_BRANCHES

select_git_working_dir_any(list, target) ==
    LET Other(wt) == wt.path # target.path
    IN find(list, Other)

select_git_working_dir(list, target) ==
    LET Main(wt) == wt.path # target.path /\ is_main_branch_worktree(wt)
        Other(wt) == wt.path # target.path
    IN IF IsSome(find(list, Main)) THEN find(list, Main) ELSE find(list, Other)

is_yes_by_default(input) == to_lowercase(trim(input)) \notin {<<"n">>, <<"n", "o">>}

\* the y/N prompts: input.trim().to_lowercase() is "y" or "yes"
is_yes(input) == to_lowercase(trim(input)) \in {<<"y">>, <<"y", "e", "s">>}

Inputs == { <<"y", "\n">>, <<" ", "Y", "E", "S", " ", "\n">>, <<"n", "\n">>, <<>> }

\* ---------------------------------------------------------------------- hooks
RECURSIVE replace(_, _, _)
replace(command, placeholder, value) ==
    IF Len(command) = 0 THEN <<>>
    ELSE (IF command[1] = placeholder THEN value ELSE <<command[1]>>)
         \o replace(Tail(command), placeholder, value)

\* hooks.rs execute_hooks, lines 41-47
substitute(hook, branchName, worktreePath) ==
    replace(replace(hook, VAR_BRANCH, branchName), VAR_PATH, worktreePath)

\* hooks.rs execute_hooks, lines 10-37: the commands of the event
\* (ok = FALSE: find_config()? returned Err)
hook_commands(hook_type) ==
    IF ~find_config.ok THEN [ok |-> FALSE, commands |-> <<>>]
    ELSE IF ~find_config.found \/ ~IsSome(Unwrap(find_config.config).hooks)
    THEN [ok |-> TRUE, commands |-> <<>>]
    ELSE LET hooks == Unwrap(Unwrap(find_config.config).hooks)
             selected == CASE hook_type = "postAdd" -> hooks.post_add
                           [] hook_type = "preRemove" -> hooks.pre_remove
                           [] hook_type = "postRemove" -> hooks.post_remove
                           [] OTHER -> NoneV
         IN [ok |-> TRUE,
             commands |-> IF IsSome(selected) THEN Unwrap(selected) ELSE <<>>]

\* hooks.rs execute_hooks, lines 41-61: every command runs, failures are printed
run_hook_commands(hook_type, working_directory, branchName, worktreePath, outcomes) ==
    LET commands == hook_commands(hook_type).commands
    IN [i \in 1..Len(commands) |->
          Ev("hook", substitute(commands[i], branchName, worktreePath), hook_type,
             working_directory, IF outcomes[i] THEN "ok" ELSE "fail")]

\* outcomes a hook's shell can have: it cannot start in a missing directory
HookOutcomes(hook_type, working_directory) ==
    {o \in [1..Len(hook_commands(hook_type).commands) -> BOOLEAN] :
        working_directory \notin dirs => \A i \in DOMAIN o : ~o[i]}

\* hooks.rs execute_hooks as a step of a command: appends to the log and
\* finishes the command (both callers return right after it)
ExecuteHooksAndFinish(hook_type, working_directory, branchName, worktreePath) ==
    LET call == Ev("execute_hooks", hook_type,
                   [branchName |-> branchName, worktreePath |-> worktreePath],
                   working_directory, IF hook_commands(hook_type).ok THEN "ok" ELSE "err")
    IN IF ~hook_commands(hook_type).ok
       THEN /\ log' = Append(log, call)
            /\ Finish("err")
       ELSE \E outcomes \in HookOutcomes(hook_type, working_directory) :
               /\ log' = Append(log, call)
                         \o run_hook_commands(hook_type, working_directory,
                                              branchName, worktreePath, outcomes)
               /\ Finish("ok")

\* -------------------------------------------------------------- gwt remove
\* what git itself allows: only a registered linked worktree can be removed
\* (the first entry is the main working tree or the bare repository)
CanRemoveWorktree(path) ==
    \E i \in 2..Len(gitWorktrees) : gitWorktrees[i].path = path

TargetPath == Unwrap(target_worktree).path

is_bare_repository_never(target) == FALSE

\* commands/remove.rs run, lines 26-29
is_bare_repository(target) == target.bare
GitDir == Unwrap(git_working_dir).path

\* commands/remove.rs run, lines 11-47: resolution, bare check, announcement
RemoveResolve ==
    /\ op = "remove" /\ pc = "start"
    /\ UNCHANGED <<env, cwd, op, branch_name, project_root, git_working_dir, add, listRun>>
    /\ IF ~IsSome(find_project_root)
          \/ find_git_directory_from(Unwrap(find_project_root)) = {}
       THEN /\ Finish("err")
            /\ UNCHANGED <<removeLocals, log>>
       ELSE LET target == find_target_worktree(list_worktrees, branch_name)
                listed == Ev("worktree_list", <<>>, <<>>, NoDir, "ok")
            IN /\ worktrees' = list_worktrees
               /\ IF Len(list_worktrees) = 0
                  THEN /\ Finish("ok")
                       /\ log' = Append(log, listed)
                       /\ UNCHANGED <<target_worktree, branch_display, will_remove_current>>
                  ELSE IF ~IsSome(target)
                  THEN /\ Finish("err")
                       /\ log' = IF IsSome(branch_name)
                                 THEN log \o <<listed, Ev("show_available", <<>>, <<>>, NoDir, "ok")>>
                                 ELSE Append(log, listed)
                       /\ UNCHANGED <<target_worktree, branch_display, will_remove_current>>
                  ELSE IF is_bare_repository(Unwrap(target))
                  THEN /\ Finish("err")
                       /\ log' = Append(log, listed)
                       /\ target_worktree' = target
                       /\ UNCHANGED <<branch_display, will_remove_current>>
                  ELSE /\ pc' = "confirm"
                       /\ log' = Append(log, listed)
                       /\ target_worktree' = target
                       /\ branch_display' = get_branch_display(Unwrap(target))
                       /\ will_remove_current' = path_starts_with(cwd, Unwrap(target).path)
                       /\ UNCHANGED result
    /\ UNCHANGED <<initRun, parser, gitFiles>>

\* commands/remove.rs run, lines 49-85: confirmation, project root, git directory
RemoveConfirm ==
    /\ op = "remove" /\ pc = "confirm"
    /\ UNCHANGED <<env, cwd, op, branch_name, removeLocals, listRun, add>>
    /\ \E input \in Inputs :
        /\ log' = Append(log, Ev("prompt", "confirm", input, NoDir, "ok"))
        /\ IF ~is_yes(input)
           THEN /\ Finish("ok")
                /\ UNCHANGED <<project_root, git_working_dir>>
           ELSE IF ~IsSome(find_project_root)
           THEN /\ Finish("err")
                /\ UNCHANGED <<project_root, git_working_dir>>
           ELSE /\ project_root' = find_project_root
                /\ git_working_dir' =
                       select_git_working_dir(worktrees, Unwrap(target_worktree))
                /\ IF IsSome(git_working_dir')
                   THEN pc' = "remove" /\ UNCHANGED result
                   ELSE Finish("err")
    /\ UNCHANGED <<initRun, parser, gitFiles>>

\* commands/remove.rs run, lines 87-97: git worktree remove <path> --force
RemoveWorktree ==
    /\ op = "remove" /\ pc = "remove"
    /\ UNCHANGED <<localBranches, remoteBranches, configFiles, globalConfig, cwd, op,
                   branch_name, removeLocals, listRun, project_root, git_working_dir, add>>
    /\ \E ok \in BOOLEAN :
        /\ ok => CanRemoveWorktree(TargetPath)
        /\ log' = Append(log, Ev("worktree_remove", TargetPath, <<>>, GitDir,
                                 IF ok THEN "ok" ELSE "fail"))
        /\ IF ok
           THEN /\ gitWorktrees' = SelectSeq(gitWorktrees, LAMBDA w : w.path # TargetPath)
                /\ dirs' = {d \in dirs : ~path_starts_with(d, TargetPath)}
                /\ pc' = "branch"
                /\ UNCHANGED result
           ELSE /\ Finish("err")
                /\ UNCHANGED <<gitWorktrees, dirs>>
    /\ UNCHANGED <<initRun, parser, gitFiles>>

\* commands/remove.rs run, lines 99-113 and 140-154: git branch -d
RemoveBranch ==
    /\ op = "remove" /\ pc = "branch"
    /\ UNCHANGED <<gitWorktrees, remoteBranches, dirs, configFiles, globalConfig, cwd,
                   op, branch_name, removeLocals, listRun, project_root, git_working_dir, add,
                   result>>
    /\ IF branch_display \in PROTECTED_BRANCHES
       THEN /\ pc' = "chdir"
            /\ UNCHANGED <<localBranches, log>>
       ELSE \E out \in {"ok", "not fully merged", "other"} :
               /\ out = "ok" => branch_display \in localBranches
               /\ out = "not fully merged" => branch_display \in localBranches
               /\ log' = Append(log, Ev("branch_d", branch_display, <<>>, GitDir, out))
               /\ localBranches' = IF out = "ok" THEN localBranches \ {branch_display}
                                   ELSE localBranches
               /\ pc' = IF out = "not fully merged" THEN "force" ELSE "chdir"
    /\ UNCHANGED <<initRun, parser, gitFiles>>

\* commands/remove.rs run, lines 114-139: force prompt and git branch -D
RemoveForceDelete ==
    /\ op = "remove" /\ pc = "force"
    /\ UNCHANGED <<gitWorktrees, remoteBranches, dirs, configFiles, globalConfig, cwd,
                   op, branch_name, removeLocals, listRun, project_root, git_working_dir, add,
                   result>>
    /\ pc' = "chdir"
    /\ \E input \in Inputs :
        IF is_yes(input)
        THEN \E ok \in BOOLEAN :
                /\ log' = log \o <<Ev("prompt", "force", input, NoDir, "ok"),
                                   Ev("branch_D", branch_display, <<>>, GitDir,
                                      IF ok THEN "ok" ELSE "fail")>>
                /\ localBranches' = IF ok THEN localBranches \ {branch_display}
                                    ELSE localBranches
        ELSE /\ log' = Append(log, Ev("prompt", "force", input, NoDir, "ok"))
             /\ UNCHANGED localBranches
    /\ UNCHANGED <<initRun, parser, gitFiles>>

\* commands/remove.rs run, lines 156-159: leave the removed worktree
RemoveChdir ==
    /\ op = "remove" /\ pc = "chdir"
    /\ UNCHANGED <<env, op, branch_name, removeLocals, listRun, project_root, git_working_dir, add>>
    /\ IF ~will_remove_current
       THEN /\ pc' = "hooks"
            /\ UNCHANGED <<cwd, log, result>>
       ELSE IF Unwrap(project_root) \in dirs
       THEN /\ cwd' = Unwrap(project_root)
            /\ log' = Append(log, Ev("chdir", Unwrap(project_root), <<>>, NoDir, "ok"))
            /\ pc' = "hooks"
            /\ UNCHANGED result
       ELSE /\ log' = Append(log, Ev("chdir", Unwrap(project_root), <<>>, NoDir, "fail"))
            /\ Finish("err")
            /\ UNCHANGED cwd
    /\ UNCHANGED <<initRun, parser, gitFiles>>

\* (variant: the commands under preRemove are run at the end)
RemoveHooks_pre_remove ==
    /\ op = "remove" /\ pc = "hooks"
    /\ UNCHANGED <<env, cwd, op, branch_name, removeLocals, listRun, project_root,
                   git_working_dir, add>>
    /\ ExecuteHooksAndFinish("preRemove", Unwrap(project_root), branch_display,
                             path_to_str(TargetPath))
    /\ UNCHANGED <<initRun, parser, gitFiles>>

\* commands/remove.rs run, lines 161-179: the postRemove hooks
RemoveHooks ==
    /\ op = "remove" /\ pc = "hooks"
    /\ UNCHANGED <<env, cwd, op, branch_name, removeLocals, listRun, project_root,
                   git_working_dir, add>>
    /\ ExecuteHooksAndFinish("postRemove", Unwrap(project_root), branch_display,
                             path_to_str(TargetPath))
    /\ UNCHANGED <<initRun, parser, gitFiles>>

\* ------------------------------------------------------------ initial states
BranchOptions == {NoneV} \cup {Some(Ref(n)) : n \in BranchNames}
\* git prints no HEAD line for a bare repository; a block that carries both
\* `bare` and HEAD is kept as the input the bare check is written for
FirstEntries ==
    {PartialWorktree(p, h, NoneV, TRUE) : p \in MainPaths, h \in {NoneV, Some(Head40)}}
    \cup {PartialWorktree(p, Some(Head40), b, FALSE) : p \in MainPaths, b \in BranchOptions}
LinkedEntries ==
    {PartialWorktree(p, Some(Head40), b, FALSE) : p \in LinkedPaths, b \in BranchOptions}

\* what `git worktree list` can report: the main entry first, then linked
\* worktrees; paths are distinct and a branch is checked out at most once
WorktreeLists ==
    {<<>>} \cup
    {l \in UNION {[1..n -> FirstEntries \cup LinkedEntries] : n \in 1..MaxWorktrees} :
        /\ l[1] \in FirstEntries
        /\ \A i \in 2..Len(l) : l[i] \in LinkedEntries
        /\ \A i, j \in DOMAIN l :
              i # j => /\ l[i].path # l[j].path
                       /\ (IsSome(l[i].branch) => l[i].branch # l[j].branch)}

ListedBranches(l) ==
    {clean_branch_name(Unwrap(l[i].branch)) : i \in {j \in DOMAIN l : IsSome(l[j].branch)}}

\* every ancestor of an existing directory exists
Existing(base) ==
    UNION {{SubSeq(q, 1, n) : n \in 0..Len(q)} : q \in base}

RemoveArgs == {NoneV, Some(S("a")), Some(S("main"))}

\* commands/list.rs run: its argument and the locals of its loop
ListLocals == [local_only |-> FALSE, has_pr_info |-> FALSE, next |-> 1,
               display_worktrees |-> <<>>]

\* what `git worktree list --porcelain` prints for a list of blocks: the
\* worktree line, HEAD, then branch / detached / bare, and a blank line
\* (a locked worktree has one more line)
LOCKED_LINE == <<"locked">>
DETACHED_LINE == <<"detached">>
porcelain_block(block, locked) ==
    <<<<WORKTREE_PREFIX>> \o path_to_str(block.path)>>
    \o (IF IsSome(block.head) THEN <<<<HEAD_PREFIX>> \o Unwrap(block.head)>> ELSE <<>>)
    \o (IF block.bare THEN <<BARE_LINE>>
        ELSE IF IsSome(block.branch) THEN <<<<BRANCH_PREFIX>> \o Unwrap(block.branch)>>
        ELSE <<DETACHED_LINE>>)
    \o (IF locked THEN <<LOCKED_LINE>> ELSE <<>>)
    \o << <<>> >>
RECURSIVE porcelain(_, _)
porcelain(blocks, locked) ==
    IF Len(blocks) = 0 THEN <<>>
    ELSE porcelain_block(blocks[1], locked) \o porcelain(Tail(blocks), locked)

PorcelainLists ==
    {<<>>, <<PartialWorktree(P, NoneV, NoneV, TRUE)>>,
     <<PartialWorktree(P, NoneV, NoneV, TRUE),
       PartialWorktree(PWA, Some(Head40), Some(Ref(S("a"))), FALSE)>>}
    \cup { <<PartialWorktree(P, Some(Head40), Some(Ref(S("main"))), FALSE)>> \o linked :
             linked \in { <<>>,
                          <<PartialWorktree(PWA, Some(Head40), Some(Ref(S("a"))), FALSE)>>,
                          <<PartialWorktree(PWA, Some(Head40), NoneV, FALSE)>>,
                          <<PartialWorktree(PWB, Some(Head40), Some(Ref(S("a"))), FALSE),
                            PartialWorktree(PWA, Some(Head40), Some(Ref(S("b"))), FALSE)>>,
                          <<PartialWorktree(PWA, Some(Head40), NoneV, FALSE),
                            PartialWorktree(PNested, Some(Head40), Some(Ref(S("a"))), FALSE)>> } }
WellFormedOutputs == {porcelain(l, locked) : l \in PorcelainLists, locked \in BOOLEAN}

\* any text of up to MaxLines lines, complete or not
PorcelainLines ==
    {<<WORKTREE_PREFIX>> \o path_to_str(P), <<WORKTREE_PREFIX>> \o path_to_str(PWA),
     <<HEAD_PREFIX>> \o Head40, <<BRANCH_PREFIX>> \o Ref(S("a")),
     <<BRANCH_PREFIX>> \o Ref(S("main")), BARE_LINE, DETACHED_LINE, <<>>}
ArbitraryOutputs == UNION {[1..n -> PorcelainLines] : n \in 0..MaxLines}
ParseInputs == WellFormedOutputs \cup ArbitraryOutputs

\* git.rs parse_worktree_list: the output it reads and its locals
ParserLocals == [output |-> <<>>, next |-> 1, current_worktree |-> NoneV, worktrees |-> <<>>]
ParserStarts == {[ParserLocals EXCEPT !.output = o] : o \in ParseInputs}

\* commands/init.rs run: its arguments and the locals of run_clone
InitLocals0 ==
    [repo_url |-> <<>>, provider |-> NoneV, force |-> FALSE, local |-> FALSE,
     detected_provider |-> NoneV, repo_name |-> <<>>, default_branch |-> <<>>,
     final_dir_name |-> <<>>]
MainRepoUrl == <<GIT_AT>> \o GITHUB_HOST \o <<":", "o", "/", "main", GIT_SUFFIX>>
InitUrls == {OriginUrl, OtherUrl, MainRepoUrl, <<"invalid-repo-url">>}
InitRuns ==
    {[InitLocals0 EXCEPT !.repo_url = u, !.provider = pr, !.force = f, !.local = l] :
        u \in InitUrls, pr \in {NoneV, Some("Github")}, f \in BOOLEAN, l \in BOOLEAN}

\* .git files left in directories that gitWorktrees does not list: worktrees
\* of a repository that lives elsewhere (LiveGitdir) or is gone (GoneGitdir)
LiveGitdir == <<S("tmp"), S("repo"), S(".git"), S("worktrees"), S("a")>>
GoneGitdir == <<S("old"), S("repo"), S(".git"), S("worktrees"), S("a")>>
GitdirLine(target) == <<"gitdir: ">> \o path_to_str(target)
GitFileContents ==
    {NoneV, Some(<<>>), Some(<<S("x")>>),
     Some(<<GitdirLine(LiveGitdir)>>),
     Some(<<GitdirLine(GoneGitdir) \o <<"\n">> >>),
     Some(<<S("x"), GitdirLine(GoneGitdir), GitdirLine(LiveGitdir)>>)}
GitFileDirs == {P, PMain, PNested}
GitFile(d, content) == [dir |-> d, content |-> content]
GitFileSets ==
    {gf \in SUBSET {GitFile(d, c) : d \in GitFileDirs, c \in GitFileContents} :
        \A f \in gf, g \in gf : f.dir = g.dir => f = g}
ProbeOps == {"is_orphaned_worktree", "find_existing_worktree", "find_valid_git_directory"}

InitLocals ==
    /\ pc = "start"
    /\ result = "running"
    /\ log = <<Ev("gwt", op, branch_name, cwd, "ok")>>
    /\ worktrees = <<>>
    /\ target_worktree = NoneV
    /\ branch_display = <<>>
    /\ will_remove_current = FALSE
    /\ project_root = NoneV
    /\ git_working_dir = NoneV
    /\ add = [target_path |-> <<>>, main_branch |-> <<>>,
              local_exists |-> FALSE, remote_exists |-> FALSE]
    /\ listRun \in {[ListLocals EXCEPT !.local_only = lo] : lo \in IF op = "list" THEN BOOLEAN ELSE {FALSE}}
    /\ initRun \in IF op = "init" THEN InitRuns ELSE {InitLocals0}
    /\ parser \in IF op = "parse_worktree_list" THEN ParserStarts ELSE {ParserLocals}
    /\ gitFiles \in IF op \in ProbeOps THEN GitFileSets ELSE {{}}

InitEnv(scenarios) ==
    /\ gitWorktrees \in WorktreeLists
    /\ cwd \in Cwds
    /\ \E sc \in scenarios :
          /\ configFiles = sc.local
          /\ globalConfig = Registry(sc.global)
    /\ dirs = Existing({P, Outside, cwd}
                       \cup {gitWorktrees[i].path : i \in DOMAIN gitWorktrees}
                       \cup {f.dir : f \in configFiles})

Init ==
    /\ InitEnv(ConfigScenarios)
    /\ localBranches = ListedBranches(gitWorktrees) \cup {S("main")}
    /\ remoteBranches = {S("main")}
    /\ op = "remove"
    /\ branch_name \in RemoveArgs
    /\ InitLocals

Next ==
    \/ RemoveResolve
    \/ RemoveConfirm
    \/ RemoveWorktree
    \/ RemoveBranch
    \/ RemoveForceDelete
    \/ RemoveChdir
    \/ RemoveHooks

Spec == Init /\ [][Next]_vars

\* ----------------------------------------------------------------- gwt add
\* config.rs derive_worktrees_path
derive_worktrees_path(project_path) ==
    LET repo_name == IF IsSome(file_name(project_path))
                     THEN Unwrap(file_name(project_path)) ELSE S("repo")
    IN IF IsSome(parent(project_path))
       THEN join(Unwrap(parent(project_path)), repo_name \o <<WORKTREES_SUFFIX>>)
       ELSE join(project_path, S("worktrees"))

\* config.rs get_worktrees_path
get_worktrees_path(config) ==
    IF IsSome(config.worktrees_path) THEN config.worktrees_path
    ELSE IF IsSome(config.project_path)
    THEN Some(derive_worktrees_path(Unwrap(config.project_path)))
    ELSE NoneV

\* commands/add.rs determine_paths, lines 113-120
worktrees_path_for(root) ==
    IF find_config.found /\ IsSome(get_worktrees_path(Unwrap(find_config.config)))
    THEN Unwrap(get_worktrees_path(Unwrap(find_config.config)))
    ELSE derive_worktrees_path(root)

\* git.rs get_current_branch: symbolic-ref --short HEAD in a worktree
get_current_branch(repo_path) ==
    LET At(wt) == wt.path = repo_path
        wt == find(gitWorktrees, At)
    IN IF IsSome(wt) /\ ~Unwrap(wt).bare /\ IsSome(Unwrap(wt).branch)
       THEN Some(clean_branch_name(Unwrap(Unwrap(wt).branch)))
       ELSE NoneV

\* git.rs get_remote_default_branch (origin/HEAD names origin's main when it
\* has one); None = Err
get_remote_default_branch(repo_path) ==
    IF S("main") \in remoteBranches THEN Some(S("main"))
    ELSE IF S("master") \in remoteBranches THEN Some(S("master"))
    ELSE get_current_branch(repo_path)

\* commands/add.rs get_main_branch; None = Err
get_main_branch ==
    IF find_config.found THEN Some(Unwrap(find_config.config).main_branch)
    ELSE IF IsSome(get_git_root) THEN get_remote_default_branch(Unwrap(get_git_root))
    ELSE Some(S("main"))

\* commands/add.rs run, lines 11-27: argument check, paths, main branch
AddPrepare ==
    /\ op = "add" /\ pc = "start"
    /\ UNCHANGED <<gitWorktrees, localBranches, remoteBranches, configFiles,
                   globalConfig, cwd, op, branch_name, removeLocals, listRun>>
    /\ IF Len(Unwrap(branch_name)) = 0
          \/ ~IsSome(find_project_root)
          \/ find_existing_worktree(Unwrap(find_project_root)) = {}
          \/ ~find_config.ok
       THEN /\ Finish("err")
            /\ UNCHANGED <<dirs, project_root, git_working_dir, add, log>>
       ELSE \E existing \in find_existing_worktree(Unwrap(find_project_root)) :
               LET root == Unwrap(find_project_root)
                   worktrees_path == worktrees_path_for(root)
               IN /\ project_root' = Some(root)
                  /\ git_working_dir' = Some(existing)
                  /\ dirs' = dirs \cup Existing({worktrees_path})
                  /\ log' = IF worktrees_path \in dirs THEN log
                            ELSE Append(log, Ev("create_dir_all", worktrees_path, <<>>,
                                                NoDir, "ok"))
                  /\ IF IsSome(get_main_branch)
                     THEN /\ add' = [add EXCEPT
                                       !.target_path = join(worktrees_path, Unwrap(branch_name)),
                                       !.main_branch = Unwrap(get_main_branch)]
                          /\ pc' = "fetch"
                          /\ UNCHANGED result
                     ELSE /\ add' = [add EXCEPT
                                       !.target_path = join(worktrees_path, Unwrap(branch_name))]
                          /\ Finish("err")
    /\ UNCHANGED <<initRun, parser, gitFiles>>

AddFetch_ignoring_failure ==
    /\ op = "add" /\ pc = "fetch"
    /\ UNCHANGED <<gitWorktrees, localBranches, dirs, configFiles, globalConfig, cwd,
                   op, branch_name, removeLocals, listRun, project_root, git_working_dir, add,
                   remoteBranches, result>>
    /\ pc' = "branch_exists"
    /\ \E ok \in BOOLEAN :
        log' = Append(log, Ev("fetch", S("origin"), <<>>, Unwrap(git_working_dir),
                              IF ok THEN "ok" ELSE "fail"))
    /\ UNCHANGED <<initRun, parser, gitFiles>>

\* commands/add.rs run, lines 29-31: git fetch origin
AddFetch ==
    /\ op = "add" /\ pc = "fetch"
    /\ UNCHANGED <<gitWorktrees, localBranches, dirs, configFiles, globalConfig, cwd,
                   op, branch_name, removeLocals, listRun, project_root, git_working_dir, add>>
    /\ \E ok \in BOOLEAN :
        /\ log' = Append(log, Ev("fetch", S("origin"), <<>>, Unwrap(git_working_dir),
                                 IF ok THEN "ok" ELSE "fail"))
        /\ IF ok
           THEN /\ \E fetched \in SUBSET {S("a")} :
                      remoteBranches' = remoteBranches \cup fetched
                /\ pc' = "branch_exists"
                /\ UNCHANGED result
           ELSE /\ Finish("err")
                /\ UNCHANGED remoteBranches
    /\ UNCHANGED <<initRun, parser, gitFiles>>

AddBranchExists_local_never ==
    /\ op = "add" /\ pc = "branch_exists"
    /\ UNCHANGED <<env, cwd, op, branch_name, removeLocals, listRun, project_root,
                   git_working_dir, result>>
    /\ pc' = "worktree_add"
    /\ \E local_ok, remote_ok \in BOOLEAN :
        /\ log' = log \o
              <<Ev("branch_list", Unwrap(branch_name), <<>>, Unwrap(git_working_dir),
                   IF local_ok THEN "ok" ELSE "fail"),
                Ev("branch_list_r", Unwrap(branch_name), <<>>, Unwrap(git_working_dir),
                   IF remote_ok THEN "ok" ELSE "fail")>>
        /\ add' = [add EXCEPT
                     !.local_exists = FALSE,
                     !.remote_exists = remote_ok /\ Unwrap(branch_name) \in remoteBranches]
    /\ UNCHANGED <<initRun, parser, gitFiles>>

\* git.rs branch_exists: a failed query reads as "no such branch"
AddBranchExists ==
    /\ op = "add" /\ pc = "branch_exists"
    /\ UNCHANGED <<env, cwd, op, branch_name, removeLocals, listRun, project_root,
                   git_working_dir, result>>
    /\ pc' = "worktree_add"
    /\ \E local_ok, remote_ok \in BOOLEAN :
        /\ log' = log \o
              <<Ev("branch_list", Unwrap(branch_name), <<>>, Unwrap(git_working_dir),
                   IF local_ok THEN "ok" ELSE "fail"),
                Ev("branch_list_r", Unwrap(branch_name), <<>>, Unwrap(git_working_dir),
                   IF remote_ok THEN "ok" ELSE "fail")>>
        /\ add' = [add EXCEPT
                     !.local_exists = local_ok /\ Unwrap(branch_name) \in localBranches,
                     !.remote_exists = remote_ok /\ Unwrap(branch_name) \in remoteBranches]
    /\ UNCHANGED <<initRun, parser, gitFiles>>

WorktreeAddArgs_remote_first(local_exists, remote_exists) ==
    IF remote_exists
    THEN [path |-> add.target_path, b |-> branch_name,
          commitish |-> <<"origin/">> \o Unwrap(branch_name), no_track |-> FALSE]
    ELSE IF local_exists
    THEN [path |-> add.target_path, b |-> NoneV, commitish |-> Unwrap(branch_name),
          no_track |-> FALSE]
    ELSE [path |-> add.target_path, b |-> branch_name,
          commitish |-> <<"origin/">> \o add.main_branch, no_track |-> TRUE]

\* the argument list of `git worktree add`, by strategy (add.rs lines 37-87)
WorktreeAddArgs(local_exists, remote_exists) ==
    IF local_exists
    THEN [path |-> add.target_path, b |-> NoneV, commitish |-> Unwrap(branch_name),
          no_track |-> FALSE]
    ELSE IF remote_exists
    THEN [path |-> add.target_path, b |-> branch_name,
          commitish |-> <<"origin/">> \o Unwrap(branch_name), no_track |-> FALSE]
    ELSE [path |-> add.target_path, b |-> branch_name,
          commitish |-> <<"origin/">> \o add.main_branch, no_track |-> TRUE]

\* what git itself allows for `worktree add <path> [-b <new>] <commit-ish>`
CheckedOut(name) ==
    \E i \in DOMAIN gitWorktrees : gitWorktrees[i].branch = Some(Ref(name))

CanAddWorktree(args) ==
    /\ \A i \in DOMAIN gitWorktrees : gitWorktrees[i].path # args.path
    /\ IF IsSome(args.b)
       THEN /\ Unwrap(args.b) \notin localBranches
            /\ str_starts_with(args.commitish, "origin/")
            /\ Tail(args.commitish) \in remoteBranches
       ELSE /\ args.commitish \in localBranches
            /\ ~CheckedOut(args.commitish)

\* commands/add.rs run, lines 36-94: git worktree add
AddWorktree ==
    /\ op = "add" /\ pc = "worktree_add"
    /\ UNCHANGED <<remoteBranches, configFiles, globalConfig, cwd, op, branch_name,
                   removeLocals, listRun, project_root, git_working_dir, add>>
    /\ \E ok \in BOOLEAN :
        LET args == WorktreeAddArgs(add.local_exists, add.remote_exists)
        IN /\ ok => CanAddWorktree(args)
           /\ log' = Append(log, Ev("worktree_add", args, <<>>, Unwrap(git_working_dir),
                                    IF ok THEN "ok" ELSE "fail"))
           /\ IF ok
              THEN /\ gitWorktrees' =
                         Append(gitWorktrees,
                                PartialWorktree(args.path, Some(Head40),
                                                Some(Ref(Unwrap(branch_name))), FALSE))
                   /\ localBranches' = localBranches \cup {Unwrap(branch_name)}
                   /\ dirs' = dirs \cup Existing({args.path})
                   /\ pc' = "hooks"
                   /\ UNCHANGED result
              ELSE /\ Finish("err")
                   /\ UNCHANGED <<gitWorktrees, localBranches, dirs>>
    /\ UNCHANGED <<initRun, parser, gitFiles>>

\* commands/add.rs run, lines 96-106: postAdd hooks
AddHooks ==
    /\ op = "add" /\ pc = "hooks"
    /\ UNCHANGED <<env, cwd, op, branch_name, removeLocals, listRun, project_root,
                   git_working_dir, add>>
    /\ ExecuteHooksAndFinish("postAdd", add.target_path, Unwrap(branch_name),
                             path_to_str(add.target_path))
    /\ UNCHANGED <<initRun, parser, gitFiles>>

AddArgs == {Some(<<>>), Some(S("a")), Some(S("b"))}

InitAdd ==
    /\ InitEnv(AddConfigScenarios)
    /\ Len(gitWorktrees) <= MaxAddWorktrees
    /\ \E extra \in SUBSET {S("a")} :
          localBranches = ListedBranches(gitWorktrees) \cup {S("main")} \cup extra
    /\ remoteBranches \in {{}, {S("main")}}
    /\ op = "add"
    /\ branch_name \in AddArgs
    /\ InitLocals

NextAdd ==
    \/ AddPrepare
    \/ AddFetch
    \/ AddBranchExists
    \/ AddWorktree
    \/ AddHooks

SpecAdd == InitAdd /\ [][NextAdd]_vars

\* ------------------------------------------------- gwt add: project layouts
\* the layouts `gwt init` leaves: the main checkout is /p, or /p/main inside
\* the project directory /p; /q is another clone of the same repository
Q == <<S("q")>>
LayoutMainPaths == {P, PMain}

\* configurations as init.rs writes them (project_path = the main checkout),
\* optionally with an explicit worktreesPath
CfgInit(main_checkout) == Some(GitWorktreeConfig(S("main"), Some(main_checkout), NoneV, NoneV))
CfgExplicit(main_checkout, worktrees_path) ==
    Some(GitWorktreeConfig(S("main"), Some(main_checkout), Some(worktrees_path), NoneV))

LayoutConfigScenarios(m) ==
    { [local |-> {}, global |-> NoneV],
      [local |-> {ConfigFile(P, CfgInit(m))}, global |-> NoneV],
      [local |-> {ConfigFile(PMain, CfgInit(m))}, global |-> NoneV],
      [local |-> {ConfigFile(P, CfgExplicit(m, P))}, global |-> NoneV],
      [local |-> {}, global |-> Some(CfgInit(m))],
      [local |-> {}, global |-> Some(CfgInit(Q))] }

LayoutWorktreeLists(m) ==
    { <<PartialWorktree(m, Some(Head40), Some(Ref(S("main"))), FALSE)>> \o linked :
        linked \in { <<>>,
                     <<PartialWorktree(join(derive_worktrees_path(m), S("a")), Some(Head40),
                                       Some(Ref(S("a"))), FALSE)>> } }

InitAddLayout ==
    /\ \E m \in LayoutMainPaths :
          /\ gitWorktrees \in LayoutWorktreeLists(m)
          /\ \E sc \in LayoutConfigScenarios(m) :
                /\ configFiles = sc.local
                /\ globalConfig = Registry(sc.global)
    /\ cwd \in {P, PMain} \cup {gitWorktrees[i].path : i \in DOMAIN gitWorktrees}
    /\ dirs = Existing({P, PMain, Q, cwd}
                       \cup {gitWorktrees[i].path : i \in DOMAIN gitWorktrees})
    /\ localBranches = ListedBranches(gitWorktrees)
    /\ remoteBranches \in {{S("main")}, {S("main"), S("b")}}
    /\ op = "add"
    /\ branch_name \in {Some(S("a")), Some(S("b"))}
    /\ InitLocals

SpecAddLayout == InitAddLayout /\ [][NextAdd]_vars

\* ---------------------------------------------------------------- gwt list
BARE_DISPLAY == S("(bare)")
WorktreeDisplay(branch, pr_info) == [branch |-> branch, pr_info |-> pr_info]

\* commands/list.rs run, line 161: is a pull request looked up for this entry
needs_pr_lookup(wt) ==
    listRun.has_pr_info /\ ~wt.bare /\ get_branch_display(wt) # BARE_DISPLAY

CurrentWorktree == worktrees[listRun.next]

\* commands/list.rs run, lines 24-142: git directory, listing, provider clients
\* (has_pr_info needs a configuration and stored credentials)
ListPrepare ==
    /\ op = "list" /\ pc = "start"
    /\ UNCHANGED <<env, cwd, op, branch_name, target_worktree, branch_display,
                   will_remove_current, project_root, git_working_dir, add>>
    /\ IF ~IsSome(find_project_root)
          \/ find_git_directory_from(Unwrap(find_project_root)) = {}
       THEN /\ Finish("err")
            /\ UNCHANGED <<worktrees, listRun, log>>
       ELSE /\ worktrees' = list_worktrees
            /\ log' = Append(log, Ev("worktree_list", <<>>, <<>>, NoDir, "ok"))
            /\ IF Len(list_worktrees) = 0
               THEN Finish("ok") /\ UNCHANGED listRun
               ELSE IF ~find_config.ok
               THEN Finish("err") /\ UNCHANGED listRun
               ELSE /\ \E credentials \in BOOLEAN :
                         listRun' = [listRun EXCEPT
                                       !.has_pr_info = find_config.found /\ credentials]
                    /\ pc' = "lookup"
                    /\ UNCHANGED result
    /\ UNCHANGED <<initRun, parser, gitFiles>>

\* commands/list.rs run, lines 147-161 and 182-186: an entry without lookup
ListLookupSkip ==
    /\ op = "list" /\ pc = "lookup"
    /\ listRun.next <= Len(worktrees)
    /\ ~needs_pr_lookup(CurrentWorktree)
    /\ listRun' = [listRun EXCEPT
                     !.next = @ + 1,
                     !.display_worktrees =
                         Append(@, WorktreeDisplay(get_branch_display(CurrentWorktree), NoneV))]
    /\ UNCHANGED <<env, cwd, pc, op, branch_name, removeLocals, project_root,
                   git_working_dir, add, log, result>>
    /\ UNCHANGED <<initRun, parser, gitFiles>>

\* commands/list.rs run, lines 161-173: the request of one entry is sent and
\* the loop waits for it (.await)
ListLookupStart ==
    /\ op = "list" /\ pc = "lookup"
    /\ listRun.next <= Len(worktrees)
    /\ needs_pr_lookup(CurrentWorktree)
    /\ pc' = "await"
    /\ log' = Append(log, Ev("pr_lookup", get_branch_display(CurrentWorktree),
                             listRun.next, NoDir, "sent"))
    /\ UNCHANGED <<env, cwd, op, branch_name, removeLocals, project_root,
                   git_working_dir, add, listRun, result>>
    /\ UNCHANGED <<initRun, parser, gitFiles>>

ListLookupDone_abort_on_error ==
    /\ op = "list" /\ pc = "await"
    /\ UNCHANGED <<env, cwd, op, branch_name, removeLocals, project_root,
                   git_working_dir, add>>
    /\ \E pr_result \in {"found", "none", "err"} :
          /\ log' = Append(log, Ev("pr_result", get_branch_display(CurrentWorktree),
                                   listRun.next, NoDir, pr_result))
          /\ IF pr_result = "err"
             THEN Finish("err") /\ UNCHANGED listRun
             ELSE /\ listRun' = [listRun EXCEPT
                           !.next = @ + 1,
                           !.display_worktrees =
                               Append(@, WorktreeDisplay(
                                   get_branch_display(CurrentWorktree),
                                   IF pr_result = "found"
                                   THEN Some(get_branch_display(CurrentWorktree))
                                   ELSE NoneV))]
                  /\ pc' = "lookup"
                  /\ UNCHANGED result
    /\ UNCHANGED <<initRun, parser, gitFiles>>

\* commands/list.rs run, lines 173-186: the answer arrives; Err reads as None
ListLookupDone ==
    /\ op = "list" /\ pc = "await"
    /\ pc' = "lookup"
    /\ UNCHANGED <<env, cwd, op, branch_name, removeLocals, project_root,
                   git_working_dir, add, result>>
    /\ \E pr_result \in {"found", "none", "err"} :
          /\ log' = Append(log, Ev("pr_result", get_branch_display(CurrentWorktree),
                                   listRun.next, NoDir, pr_result))
          /\ listRun' = [listRun EXCEPT
                           !.next = @ + 1,
                           !.display_worktrees =
                               Append(@, WorktreeDisplay(
                                   get_branch_display(CurrentWorktree),
                                   IF pr_result = "found"
                                   THEN Some(get_branch_display(CurrentWorktree))
                                   ELSE NoneV))]
    /\ UNCHANGED <<initRun, parser, gitFiles>>

\* commands/list.rs run, lines 189-316: display, remote pull requests, tip
ListFinish ==
    /\ op = "list" /\ pc = "lookup"
    /\ listRun.next > Len(worktrees)
    /\ UNCHANGED <<env, cwd, op, branch_name, removeLocals, project_root,
                   git_working_dir, add, listRun>>
    /\ LET shown == [i \in DOMAIN listRun.display_worktrees |->
                        Ev("display", listRun.display_worktrees[i].branch,
                           listRun.display_worktrees[i].pr_info, NoDir, "ok")]
       IN IF listRun.has_pr_info /\ ~listRun.local_only
          THEN \E all_prs \in {"ok", "err"} :
                  /\ log' = log \o shown \o <<Ev("remote_prs", <<>>, <<>>, NoDir, all_prs)>>
                  /\ Finish("ok")
          ELSE /\ log' = log \o shown
               /\ IF ~listRun.has_pr_info /\ ~listRun.local_only /\ ~find_config.ok
                  THEN Finish("err")
                  ELSE Finish("ok")
    /\ UNCHANGED <<initRun, parser, gitFiles>>

InitList ==
    /\ InitEnv(ConfigScenarios)
    /\ Len(gitWorktrees) <= MaxListWorktrees
    /\ localBranches = ListedBranches(gitWorktrees) \cup {S("main")}
    /\ remoteBranches = {S("main")}
    /\ op = "list"
    /\ branch_name = NoneV
    /\ InitLocals

NextList ==
    \/ ListPrepare
    \/ ListLookupSkip
    \/ ListLookupStart
    \/ ListLookupDone
    \/ ListFinish

SpecList == InitList /\ [][NextList]_vars

\* ------------------------------------------------- interruption and re-run
\* the operator's shell: the command can be killed between two of its steps,
\* and run again with the same argument from the directory the shell is in
Invocations == {i \in DOMAIN log : log[i].cmd = "gwt"}
ShellDir == log[1].dir

Interrupt ==
    /\ pc \notin {"start", "done"}
    /\ pc' = "done"
    /\ result' = "interrupted"
    /\ log' = Append(log, Ev("interrupt", pc, <<>>, NoDir, "ok"))
    /\ UNCHANGED <<env, cwd, op, branch_name, removeLocals, listRun, project_root,
                   git_working_dir, add>>
    /\ UNCHANGED <<initRun, parser, gitFiles>>

\* a new process: every local of run() starts afresh, git and the filesystem
\* are as the previous process left them
Rerun ==
    /\ pc = "done"
    /\ Cardinality(Invocations) < MaxRuns
    /\ pc' = "start"
    /\ result' = "running"
    /\ cwd' = ShellDir
    /\ log' = log \o <<Ev("exit", result,
                          [gitWorktrees |-> gitWorktrees, localBranches |-> localBranches,
                           branch_display |-> branch_display],
                          cwd, "ok"),
                       Ev("gwt", op, branch_name, ShellDir, "ok")>>
    /\ worktrees' = <<>>
    /\ target_worktree' = NoneV
    /\ branch_display' = <<>>
    /\ will_remove_current' = FALSE
    /\ project_root' = NoneV
    /\ git_working_dir' = NoneV
    /\ add' = [target_path |-> <<>>, main_branch |-> <<>>,
               local_exists |-> FALSE, remote_exists |-> FALSE]
    /\ UNCHANGED <<env, op, branch_name, listRun>>
    /\ UNCHANGED <<initRun, parser, gitFiles>>

RetryConfigScenarios ==
    { [local |-> {}, global |-> NoneV],
      [local |-> {ConfigFile(P, CfgHooks)}, global |-> NoneV] }

\* the shell stands in the main checkout or in a worktree
RetryCwds == {P, PWA}

InitAddRetry ==
    /\ InitEnv(RetryConfigScenarios)
    /\ Len(gitWorktrees) <= MaxRetryWorktrees
    /\ cwd \in RetryCwds
    /\ localBranches = ListedBranches(gitWorktrees) \cup {S("main")}
    /\ remoteBranches = {S("main")}
    /\ op = "add"
    /\ branch_name \in {Some(S("a")), Some(S("b"))}
    /\ InitLocals

NextAddRetry ==
    \/ NextAdd
    \/ Interrupt
    \/ Rerun

SpecAddRetry == InitAddRetry /\ [][NextAddRetry]_vars

InitResume ==
    /\ InitEnv(RetryConfigScenarios)
    /\ Len(gitWorktrees) <= MaxAddWorktrees
    /\ localBranches = ListedBranches(gitWorktrees) \cup {S("main")}
    /\ remoteBranches = {S("main")}
    /\ op = "remove"
    /\ branch_name \in RemoveArgs
    /\ InitLocals

NextResume ==
    \/ Next
    \/ Interrupt
    \/ Rerun

SpecResume == InitResume /\ [][NextResume]_vars

\* ------------------------------------------------------------------ gwt init
\* github.rs parse_github_url: a GitHub prefix and at least owner/repo
parse_github_url(url) ==
    LET https == strip_prefix(url, <<HTTPS>> \o GITHUB_HOST \o <<"/">>)
        ssh == strip_prefix(url, <<GIT_AT>> \o GITHUB_HOST \o <<":">>)
        parts(rest) == split_once(trim_end_matches(rest, GIT_SUFFIX), "/")
    IN IF IsSome(https) THEN IsSome(parts(Unwrap(https)))
       ELSE IF IsSome(ssh) THEN IsSome(parts(Unwrap(ssh)))
       ELSE FALSE

\* bitbucket_api.rs is_bitbucket_repository: the URL contains bitbucket.org
is_bitbucket_repository(url) ==
    \E i \in 1..(Len(url) - Len(BITBUCKET_HOST) + 1) :
        SubSeq(url, i, i + Len(BITBUCKET_HOST) - 1) = BITBUCKET_HOST

\* commands/init.rs detect_repository_provider: None is the provider error
detect_repository_provider(repo_url, provider) ==
    IF IsSome(provider) THEN provider
    ELSE IF parse_github_url(repo_url) THEN Some("Github")
    ELSE IF is_bitbucket_repository(repo_url) THEN Some("BitbucketCloud")
    ELSE NoneV

\* commands/init.rs extract_repo_name: the last /-segment without one .git
RECURSIVE last_segment(_)
last_segment(url) ==
    IF IsSome(split_once(url, "/")) THEN last_segment(Unwrap(split_once(url, "/"))[2])
    ELSE url
extract_repo_name(repo_url) ==
    IF str_ends_with(last_segment(repo_url), GIT_SUFFIX)
    THEN SubSeq(last_segment(repo_url), 1, Len(last_segment(repo_url)) - 1)
    ELSE last_segment(repo_url)

\* fs::remove_dir_all / fs::rename on the model's directories and files
remove_dir_all(tree) == {d \in dirs : ~path_starts_with(d, tree)}
rename_path(d, from, to) ==
    IF path_starts_with(d, from) THEN to \o SubSeq(d, Len(from) + 1, Len(d)) ELSE d

DefaultBranches == {S("main"), <<"feature", "/", "x">>}
InitConfig ==
    Some(GitWorktreeConfig(initRun.default_branch,
                           Some(join(cwd, initRun.final_dir_name)), NoneV,
                           Some(Hooks(Some(<<>>), Some(<<>>), Some(<<>>)))))

\* commands/init.rs run_clone, lines 21-27: provider, repository name
InitDetect ==
    /\ op = "init" /\ pc = "start"
    /\ IF IsSome(detect_repository_provider(initRun.repo_url, initRun.provider))
       THEN /\ initRun' = [initRun EXCEPT
                  !.detected_provider =
                      detect_repository_provider(initRun.repo_url, initRun.provider),
                  !.repo_name = extract_repo_name(initRun.repo_url)]
            /\ project_root' = Some(cwd)
            /\ pc' = "target"
            /\ UNCHANGED result
       ELSE /\ Finish("err")
            /\ UNCHANGED <<initRun, project_root>>
    /\ log' = Append(log, Ev("detect_provider", initRun.repo_url, initRun.provider, NoDir,
                             IF IsSome(detect_repository_provider(initRun.repo_url,
                                                                  initRun.provider))
                             THEN "ok" ELSE "err"))
    /\ UNCHANGED <<env, cwd, op, branch_name, removeLocals, git_working_dir, add, listRun,
                   parser, gitFiles>>

\* commands/init.rs run_clone, lines 30-39 and 52-61: a directory in the way
\* is refused without --force and removed with it
ClearExisting(dir_name, next) ==
    /\ UNCHANGED <<gitWorktrees, localBranches, remoteBranches, globalConfig, cwd, op,
                   branch_name, removeLocals, project_root, git_working_dir, add, listRun,
                   initRun, parser, gitFiles>>
    /\ IF join(cwd, dir_name) \notin dirs
       THEN pc' = next /\ UNCHANGED <<dirs, configFiles, log, result>>
       ELSE IF ~initRun.force
       THEN /\ Finish("err")
            /\ log' = Append(log, Ev("exists", join(cwd, dir_name), initRun.force,
                                     NoDir, "err"))
            /\ UNCHANGED <<dirs, configFiles>>
       ELSE \E removed \in {"ok", "err"} :
               /\ log' = Append(log, Ev("remove_dir_all", join(cwd, dir_name),
                                        initRun.force, NoDir, removed))
               /\ IF removed = "ok"
                  THEN /\ dirs' = remove_dir_all(join(cwd, dir_name))
                       /\ configFiles' = {f \in configFiles :
                                            ~path_starts_with(f.dir, join(cwd, dir_name))}
                       /\ pc' = next
                       /\ UNCHANGED result
                  ELSE /\ Finish("err")
                       /\ UNCHANGED <<dirs, configFiles>>

InitCheckTarget_always_overwrite ==
    /\ op = "init" /\ pc = "target"
    /\ UNCHANGED <<gitWorktrees, localBranches, remoteBranches, globalConfig, cwd, op,
                   branch_name, removeLocals, project_root, git_working_dir, add, listRun,
                   initRun, parser, gitFiles, result>>
    /\ pc' = "clone"
    /\ IF join(cwd, initRun.repo_name) \notin dirs
       THEN UNCHANGED <<dirs, configFiles, log>>
       ELSE /\ log' = Append(log, Ev("remove_dir_all", join(cwd, initRun.repo_name),
                                     initRun.force, NoDir, "ok"))
            /\ dirs' = remove_dir_all(join(cwd, initRun.repo_name))
            /\ configFiles' = {f \in configFiles :
                                 ~path_starts_with(f.dir, join(cwd, initRun.repo_name))}

\* commands/init.rs run_clone, lines 30-39
InitCheckTarget ==
    /\ op = "init" /\ pc = "target"
    /\ ClearExisting(initRun.repo_name, "clone")

\* commands/init.rs run_clone, line 42: git clone <url> <repo_name>
InitClone ==
    /\ op = "init" /\ pc = "clone"
    /\ \E cloned \in {"ok", "err"}, head \in DefaultBranches :
          /\ log' = Append(log, Ev("clone", initRun.repo_url, initRun.repo_name, cwd, cloned))
          /\ IF cloned = "ok"
             THEN /\ dirs' = dirs \cup {join(cwd, initRun.repo_name)}
                  /\ gitWorktrees' = <<PartialWorktree(join(cwd, initRun.repo_name),
                                                       Some(Head40), Some(Ref(head)), FALSE)>>
                  /\ localBranches' = {head}
                  /\ remoteBranches' = {head}
                  /\ pc' = "branch"
                  /\ UNCHANGED result
             ELSE /\ Finish("err")
                  /\ UNCHANGED <<gitWorktrees, localBranches, remoteBranches, dirs>>
    /\ UNCHANGED <<configFiles, globalConfig, cwd, op, branch_name, removeLocals,
                   project_root, git_working_dir, add, listRun, initRun, parser, gitFiles>>

\* commands/init.rs run_clone, lines 45-50: default branch, directory name
InitDefaultBranch ==
    /\ op = "init" /\ pc = "branch"
    /\ \E detected \in {"ok", "err"} :
          /\ log' = Append(log, Ev("default_branch", initRun.repo_name, <<>>, cwd, detected))
          /\ IF detected = "ok"
             THEN /\ initRun' = [initRun EXCEPT
                        !.default_branch = Tail(Unwrap(gitWorktrees[1].branch)),
                        !.final_dir_name =
                            replace_char(replace_char(Tail(Unwrap(gitWorktrees[1].branch)),
                                                      "/", "-"), "\\", "-")]
                  /\ pc' = "branchdir"
                  /\ UNCHANGED result
             ELSE /\ Finish("err")
                  /\ UNCHANGED <<initRun, parser, gitFiles>>
    /\ UNCHANGED <<env, cwd, op, branch_name, removeLocals, project_root,
                   git_working_dir, add, listRun, parser, gitFiles>>

\* commands/init.rs run_clone, lines 52-61
InitCheckBranchDir ==
    /\ op = "init" /\ pc = "branchdir"
    /\ ClearExisting(initRun.final_dir_name, "rename")

\* commands/init.rs run_clone, line 63: fs::rename(repo_name, final_dir_name)
InitRename ==
    /\ op = "init" /\ pc = "rename"
    /\ \E renamed \in IF join(cwd, initRun.repo_name) \in dirs THEN {"ok", "err"} ELSE {"err"} :
          /\ log' = Append(log, Ev("rename", initRun.repo_name, initRun.final_dir_name,
                                   cwd, renamed))
          /\ IF renamed = "ok"
             THEN /\ dirs' = {rename_path(d, join(cwd, initRun.repo_name),
                                          join(cwd, initRun.final_dir_name)) : d \in dirs}
                  /\ gitWorktrees' =
                        [i \in DOMAIN gitWorktrees |->
                            [gitWorktrees[i] EXCEPT
                               !.path = rename_path(@, join(cwd, initRun.repo_name),
                                                    join(cwd, initRun.final_dir_name))]]
                  /\ pc' = "save"
                  /\ UNCHANGED result
             ELSE /\ Finish("err")
                  /\ UNCHANGED <<gitWorktrees, dirs>>
    /\ UNCHANGED <<localBranches, remoteBranches, configFiles, globalConfig, cwd, op,
                   branch_name, removeLocals, project_root, git_working_dir, add, listRun,
                   initRun, parser, gitFiles>>

\* commands/init.rs run_clone, lines 65-88: the configuration is built and
\* saved, locally or in the registry (whose directory is created first)
InitSave ==
    /\ op = "init" /\ pc = "save"
    /\ \E created \in {"ok", "err"}, saved \in {"ok", "err"} :
          IF initRun.local
          THEN /\ created = "ok"
               /\ log' = Append(log, Ev("save", join(cwd, CONFIG_FILENAME), InitConfig,
                                        cwd, saved))
               /\ configFiles' = IF saved = "ok"
                                 THEN {f \in configFiles : f.dir # cwd}
                                      \cup {ConfigFile(cwd, InitConfig)}
                                 ELSE configFiles
               /\ Finish(saved)
               /\ UNCHANGED globalConfig
          ELSE IF created = "err"
          THEN /\ saved = "err"
               /\ log' = Append(log, Ev("create_dir_all", PROJECTS_DIR, <<>>, cwd, "err"))
               /\ Finish("err")
               /\ UNCHANGED <<configFiles, globalConfig>>
          ELSE /\ log' = Append(log, Ev("save",
                                        join(PROJECTS_DIR,
                                             generate_config_filename(initRun.repo_url)),
                                        InitConfig, cwd, saved))
               /\ globalConfig' =
                     IF saved = "ok"
                     THEN SelectSeq(globalConfig,
                                    LAMBDA f : f.name # generate_config_filename(initRun.repo_url))
                          \o <<RegistryFile(generate_config_filename(initRun.repo_url),
                                            InitConfig)>>
                     ELSE globalConfig
               /\ Finish(saved)
               /\ UNCHANGED configFiles
    /\ UNCHANGED <<gitWorktrees, localBranches, remoteBranches, dirs, cwd, op, branch_name,
                   removeLocals, project_root, git_working_dir, add, listRun, initRun, parser, gitFiles>>

\* a directory with nothing in it, or with a directory in the way
InitInit ==
    /\ op = "init"
    /\ cwd = P
    /\ gitWorktrees = <<>>
    /\ localBranches = {}
    /\ remoteBranches = {}
    /\ configFiles = {}
    /\ globalConfig = <<>>
    /\ \E present \in SUBSET {join(P, S("r")), PMain} : dirs = Existing({P} \cup present)
    /\ branch_name = NoneV
    /\ InitLocals

NextInit ==
    \/ InitDetect
    \/ InitCheckTarget
    \/ InitClone
    \/ InitDefaultBranch
    \/ InitCheckBranchDir
    \/ InitRename
    \/ InitSave

SpecInit == InitInit /\ [][NextInit]_vars

\* ------------------------------------------------------- parse_worktree_list
ParserState == [current_worktree |-> parser.current_worktree, worktrees |-> parser.worktrees]

\* git.rs parse_worktree_list, lines 166-196: one line of the output
ParseLine ==
    /\ op = "parse_worktree_list" /\ pc = "start"
    /\ parser.next <= Len(parser.output)
    /\ parser' = [parse_line(parser, parser.output[parser.next]) EXCEPT !.next = @ + 1]
    /\ log' = Append(log, Ev("line", parser.output[parser.next],
                             [current_worktree |-> parser'.current_worktree,
                              worktrees |-> parser'.worktrees],
                             NoDir, parse_worktree_line(parser.output[parser.next]).kind))
    /\ UNCHANGED <<env, cwd, pc, op, branch_name, removeLocals, project_root,
                   git_working_dir, add, listRun, initRun, gitFiles, result>>

ParseEnd_no_flush ==
    /\ op = "parse_worktree_list" /\ pc = "start"
    /\ parser.next > Len(parser.output)
    /\ parser' = [parser EXCEPT !.current_worktree = NoneV]
    /\ worktrees' = parser'.worktrees
    /\ log' = Append(log, Ev("parse_worktree_list", parser.output, parser'.worktrees,
                             NoDir, "ok"))
    /\ pc' = "parsed"
    /\ UNCHANGED <<env, cwd, op, branch_name, target_worktree, branch_display,
                   will_remove_current, project_root, git_working_dir, add, listRun,
                   initRun, gitFiles, result>>

\* git.rs parse_worktree_list, lines 198-205: the last partial entry is flushed
ParseEnd ==
    /\ op = "parse_worktree_list" /\ pc = "start"
    /\ parser.next > Len(parser.output)
    /\ parser' = [parser EXCEPT !.worktrees = @ \o flush(parser.current_worktree),
                                !.current_worktree = NoneV]
    /\ worktrees' = parser'.worktrees
    /\ log' = Append(log, Ev("parse_worktree_list", parser.output, parser'.worktrees,
                             NoDir, "ok"))
    /\ pc' = "parsed"
    /\ UNCHANGED <<env, cwd, op, branch_name, target_worktree, branch_display,
                   will_remove_current, project_root, git_working_dir, add, listRun,
                   initRun, gitFiles, result>>

\* commands/remove.rs find_by_branch_name / find_by_path_name on the parsed list
ParseLookup ==
    /\ op = "parse_worktree_list" /\ pc = "parsed"
    /\ \E target_branch \in BranchNames :
          \/ /\ target_worktree' = find_by_branch_name(worktrees, target_branch)
             /\ log' = Append(log, Ev("find_by_branch_name", target_branch,
                                      find_by_branch_name(worktrees, target_branch),
                                      NoDir, "ok"))
          \/ /\ target_worktree' = find_by_path_name(worktrees, target_branch)
             /\ log' = Append(log, Ev("find_by_path_name", target_branch,
                                      find_by_path_name(worktrees, target_branch),
                                      NoDir, "ok"))
    /\ Finish("ok")
    /\ UNCHANGED <<env, cwd, op, branch_name, worktrees, branch_display,
                   will_remove_current, project_root, git_working_dir, add, listRun,
                   initRun, parser, gitFiles>>

InitParse ==
    /\ op = "parse_worktree_list"
    /\ cwd = P
    /\ gitWorktrees = <<>>
    /\ localBranches = {}
    /\ remoteBranches = {}
    /\ configFiles = {}
    /\ globalConfig = <<>>
    /\ dirs = Existing({P})
    /\ branch_name = NoneV
    /\ InitLocals

NextParse == ParseLine \/ ParseEnd \/ ParseLookup

SpecParse == InitParse /\ [][NextParse]_vars

\* ------------------------------------------------------ the path probes
\* A process that calls is_orphaned_worktree(path), find_existing_worktree(root)
\* or find_valid_git_directory(root) of core/project.rs once.
ProbeRoots == {P, PMain, Q}
ProbeWorktreeLists ==
    {<<>>,
     <<PartialWorktree(P, Some(Head40), Some(Ref(S("main"))), FALSE)>>,
     <<PartialWorktree(PMain, NoneV, NoneV, TRUE)>>,
     <<PartialWorktree(PMain, Some(Head40), Some(Ref(S("main"))), FALSE),
       PartialWorktree(PNested, Some(Head40), Some(Ref(S("a"))), FALSE)>>}

IsOrphanedWorktree ==
    /\ op = "is_orphaned_worktree" /\ pc = "start"
    /\ \E path \in ProbeRoots \cup GitFileDirs :
          log' = Append(log, Ev("is_orphaned_worktree", path,
                                is_orphaned_worktree(path), cwd, "ok"))
    /\ Finish("ok")
    /\ UNCHANGED <<env, cwd, op, branch_name, removeLocals, project_root,
                   git_working_dir, add, listRun, initRun, parser, gitFiles>>

FindExistingWorktree ==
    /\ op = "find_existing_worktree" /\ pc = "start"
    /\ \E project_root_arg \in ProbeRoots :
          IF find_existing_worktree(project_root_arg) = {}
          THEN /\ log' = Append(log, Ev("find_existing_worktree", project_root_arg,
                                        NoneV, cwd, "err"))
               /\ Finish("err")
          ELSE \E found \in find_existing_worktree(project_root_arg) :
                  /\ log' = Append(log, Ev("find_existing_worktree", project_root_arg,
                                           Some(found), cwd, "ok"))
                  /\ Finish("ok")
    /\ UNCHANGED <<env, cwd, op, branch_name, removeLocals, project_root,
                   git_working_dir, add, listRun, initRun, parser, gitFiles>>

FindValidGitDirectory ==
    /\ op = "find_valid_git_directory" /\ pc = "start"
    /\ \E project_root_arg \in ProbeRoots :
          IF find_valid_git_directory(project_root_arg) = {}
          THEN /\ log' = Append(log, Ev("find_valid_git_directory", project_root_arg,
                                        NoneV, cwd, "err"))
               /\ Finish("err")
          ELSE \E found \in find_valid_git_directory(project_root_arg) :
                  /\ log' = Append(log, Ev("find_valid_git_directory", project_root_arg,
                                           Some(found), cwd, "ok"))
                  /\ Finish("ok")
    /\ UNCHANGED <<env, cwd, op, branch_name, removeLocals, project_root,
                   git_working_dir, add, listRun, initRun, parser, gitFiles>>

InitProbe ==
    /\ op \in ProbeOps
    /\ branch_name = NoneV
    /\ cwd = P
    /\ InitLocals
    /\ gitWorktrees \in ProbeWorktreeLists
    /\ \A f \in gitFiles : \A i \in DOMAIN gitWorktrees : gitWorktrees[i].path # f.dir
    /\ configFiles = {}
    /\ globalConfig = <<>>
    /\ dirs = Existing({P, PMain, PNested, LiveGitdir})
    /\ localBranches = ListedBranches(gitWorktrees)
    /\ remoteBranches = {}

NextProbe == IsOrphanedWorktree \/ FindExistingWorktree \/ FindValidGitDirectory

SpecProbe == InitProbe /\ [][NextProbe]_vars

\* ------------------------------------------------------- the library calls
\* A process that calls the lookup functions of config.rs and core/project.rs
\* directly: find_config, find_project_root_from(start_path) and
\* generate_config_filename(repo_url).  Each call appends its argument, its
\* result and the process's cwd to the log.
MaxNameLen == 1

PWASrcLib == join(PWASrc, S("lib"))
LibStarts == {P, PWA, PWASrc, PWASrcLib, Outside}

LibWorktreeLists ==
    {<<>>, <<PartialWorktree(P, NoneV, NoneV, TRUE)>>} \cup
    { <<PartialWorktree(m, Some(Head40), Some(Ref(S("main"))), FALSE)>> \o linked :
        m \in LayoutMainPaths,
        linked \in { <<>>,
                     <<PartialWorktree(PWA, Some(Head40), Some(Ref(S("a"))), FALSE)>>,
                     <<PartialWorktree(PNested, Some(Head40), Some(Ref(S("b"))), FALSE)>>,
                     <<PartialWorktree(PWA, Some(Head40), Some(Ref(S("a"))), FALSE),
                       PartialWorktree(PNested, Some(Head40), Some(Ref(S("b"))), FALSE)>> } }

LibLocalConfigs ==
    { {}, {ConfigFile(P, CfgHooks)}, {ConfigFile(PMain, CfgPlain)},
      {ConfigFile(P, CfgHooks), ConfigFile(PMain, CfgPlain)},
      {ConfigFile(P, CfgCorrupt), ConfigFile(PMain, CfgPlain)},
      {ConfigFile(PWA, CfgPlain), ConfigFile(P, CfgHooks)} }

\* registry directories: at most one file per name, in any read_dir order
LibRegistryFiles ==
    { RegistryFile(generate_config_filename(OriginUrl), c) : c \in {CfgGlobal, CfgCorrupt} }
    \cup { RegistryFile(generate_config_filename(OtherUrl), c) :
               c \in {CfgInit(P), CfgInit(Q), CfgCorrupt} }
LibRegistries ==
    {<<>>} \cup {<<f>> : f \in LibRegistryFiles}
    \cup {fg \in LibRegistryFiles \X LibRegistryFiles : fg[1].name # fg[2].name}

\* repository names of up to MaxNameLen characters, and the clone URLs of a
\* repository <owner>/<repo> on a host
NameChars == {"o", "N", "."}
Names == UNION {[1..n -> NameChars] : n \in 1..MaxNameLen}
CloudHosts == {GITHUB_HOST, BITBUCKET_HOST}
SshUrl(host, owner, repo) ==
    <<GIT_AT>> \o host \o <<":">> \o owner \o <<"/">> \o repo \o <<GIT_SUFFIX>>
HttpsUrl(host, owner, repo) ==
    <<HTTPS>> \o host \o <<"/">> \o owner \o <<"/">> \o repo \o <<GIT_SUFFIX>>
GITLAB_HOST == <<"gitlab", ".", "com">>
\* repositories whose names hold an underscore or differ only in case
LongNamedRepos ==
    {<<GITHUB_HOST, <<"a", "_", "b">>, S("c")>>, <<GITHUB_HOST, S("a"), <<"b", "_", "c">> >>,
     <<GITHUB_HOST, S("n"), S("o")>>, <<BITBUCKET_HOST, S("a"), <<"b", "_", "c">> >>}
RepoUrls ==
    {SshUrl(h, o, r) : h \in CloudHosts, o \in Names, r \in Names}
    \cup {SshUrl(t[1], t[2], t[3]) : t \in LongNamedRepos}
    \cup {HttpsUrl(t[1], t[2], t[3]) : t \in LongNamedRepos}
    \cup {HttpsUrl(h, o, r) : h \in CloudHosts, o \in Names, r \in Names}
    \cup {SshUrl(GITLAB_HOST, S("o"), S("o")), HttpsUrl(GITLAB_HOST, S("o"), S("o")),
          <<HTTP>> \o GITLAB_HOST \o <<"/", "o">>, <<GIT_AT>> \o GITLAB_HOST,
          <<"file://", "o">>}

\* a call of GitWorktreeConfig::find_config()
FindConfig ==
    /\ op = "find_config" /\ pc = "start"
    /\ log' = Append(log, Ev("find_config", NoneV, find_config, cwd,
                             IF find_config.ok THEN "ok" ELSE "err"))
    /\ Finish(IF find_config.ok THEN "ok" ELSE "err")
    /\ UNCHANGED <<env, cwd, op, branch_name, removeLocals, project_root,
                   git_working_dir, add, listRun>>
    /\ UNCHANGED <<initRun, parser, gitFiles>>

\* core/project.rs find_project_root_from, lines 76-79: the one error it returns
NOT_IN_PROJECT ==
    "Other(Not in a git-worktree-cli project. Run 'gwt init' inside a git repository.)"

\* a call of find_project_root_from(start_path); a caller that was refused
\* may try once more from another directory
Locate ==
    /\ op = "find_project_root_from" /\ pc \in {"start", "retry"}
    /\ \E start_path \in LibStarts :
          /\ log' = Append(log, Ev("find_project_root_from", start_path,
                                   find_project_root_from(start_path), cwd,
                                   IF IsSome(find_project_root_from(start_path))
                                   THEN "ok" ELSE NOT_IN_PROJECT))
          /\ IF IsSome(find_project_root_from(start_path))
             THEN Finish("ok")
             ELSE IF pc = "start"
             THEN pc' = "refused" /\ UNCHANGED result
             ELSE Finish("err")
    /\ UNCHANGED <<env, cwd, op, branch_name, removeLocals, project_root,
                   git_working_dir, add, listRun>>
    /\ UNCHANGED <<initRun, parser, gitFiles>>

\* std::env::set_current_dir to another existing directory
LibChdir ==
    /\ op = "find_project_root_from" /\ pc = "refused"
    /\ \E d \in (Cwds \cap dirs) \ {cwd} :
          /\ cwd' = d
          /\ log' = Append(log, Ev("chdir", d, <<>>, cwd, "ok"))
    /\ pc' = "retry"
    /\ UNCHANGED <<env, op, branch_name, removeLocals, project_root,
                   git_working_dir, add, listRun, result>>
    /\ UNCHANGED <<initRun, parser, gitFiles>>

\* a call of generate_config_filename(repo_url); the process calls it for
\* two URLs
GenerateFilename ==
    /\ op = "generate_config_filename" /\ pc \in {"start", "again"}
    /\ \E repo_url \in RepoUrls :
          log' = Append(log, Ev("generate_config_filename", repo_url,
                                generate_config_filename(repo_url), NoDir, "ok"))
    /\ IF pc = "start"
       THEN pc' = "again" /\ UNCHANGED result
       ELSE Finish("ok")
    /\ UNCHANGED <<env, cwd, op, branch_name, removeLocals, project_root,
                   git_working_dir, add, listRun>>
    /\ UNCHANGED <<initRun, parser, gitFiles>>

InitLib ==
    /\ op \in {"find_config", "find_project_root_from", "generate_config_filename"}
    /\ gitWorktrees \in IF op = "generate_config_filename" THEN {<<>>} ELSE LibWorktreeLists
    /\ configFiles \in IF op = "generate_config_filename" THEN {{}} ELSE LibLocalConfigs
    /\ globalConfig \in IF op = "generate_config_filename" THEN {<<>>} ELSE LibRegistries
    /\ cwd \in IF op = "generate_config_filename" THEN {Outside} ELSE Cwds
    /\ dirs = Existing({P, Outside, cwd}
                       \cup {gitWorktrees[i].path : i \in DOMAIN gitWorktrees}
                       \cup {f.dir : f \in configFiles})
    /\ localBranches = ListedBranches(gitWorktrees)
    /\ remoteBranches = {}
    /\ branch_name = NoneV
    /\ InitLocals

NextLib == FindConfig \/ Locate \/ LibChdir \/ GenerateFilename

SpecLib == InitLib /\ [][NextLib]_vars

\* ===================================================================== claims
Pos(cmds) == {i \in DOMAIN log : log[i].cmd \in cmds}
Before(A, B) == \A i \in A, j \in B : i < j
MinOf(set) == CHOOSE x \in set : \A y \in set : x <= y

RemoveMutations == {"worktree_remove", "branch_d", "branch_D", "chdir", "execute_hooks", "hook"}
BranchDeletions == {"branch_d", "branch_D"}
ProtectedNames == {S("main"), S("master"), S("dev"), S("develop")}
ProtectedRefs == {Some(Ref(n)) : n \in ProtectedNames}

\* the answers that read as y / yes once trimmed and lower-cased
YesAnswers == { <<"y", "\n">>, <<" ", "Y", "E", "S", " ", "\n">> }
Declined(which) ==
    \E i \in Pos({"prompt"}) : log[i].a = which /\ log[i].b \notin YesAnswers
Accepted(which) ==
    \E i \in Pos({"prompt"}) : log[i].a = which /\ log[i].b \in YesAnswers

CwdAtStart == log[1].dir
HasTarget == op = "remove" /\ IsSome(target_worktree)

\* C1: a Remove whose target record has bare = true ends with an error, and
\* its run shows no prompt, no `git worktree remove`, no branch deletion, no
\* change of directory and no hook.
C1_BareTargetRefused ==
    (HasTarget /\ Unwrap(target_worktree).bare)
        => /\ pc = "done" /\ result = "err"
           /\ Pos(RemoveMutations \cup {"prompt"}) = {}

C1_Witness ==
    /\ HasTarget /\ Unwrap(target_worktree).bare
    /\ pc = "done" /\ result = "err"

\* C2: when the answer to the confirmation prompt is not y / yes (trimmed,
\* case-insensitive), Remove returns success and performed no
\* `git worktree remove`, no `git branch -d/-D`, no chdir and no hook.
C2_DeclinedIsNoOp ==
    (op = "remove" /\ Declined("confirm"))
        => /\ pc = "done" /\ result = "ok"
           /\ Pos(RemoveMutations) = {}
           /\ cwd = CwdAtStart

C2_Witness ==
    /\ op = "remove" /\ Declined("confirm")
    /\ \E i \in Pos({"prompt"}) : log[i].b = <<>>
    /\ result = "ok"

\* C3: `git worktree remove` always runs in a listed worktree other than the
\* target: the first other one on a protected branch, else the first other
\* one; when the target is the only listed worktree the removal is never
\* invoked and a confirmed Remove fails.
OtherIdx == {i \in DOMAIN worktrees : worktrees[i].path # TargetPath}
ProtectedOtherIdx == {i \in OtherIdx : worktrees[i].branch \in ProtectedRefs}
ExpectedGitDir ==
    IF ProtectedOtherIdx # {} THEN worktrees[MinOf(ProtectedOtherIdx)].path
    ELSE worktrees[MinOf(OtherIdx)].path

C3_RemovalRunsElsewhere ==
    HasTarget =>
        /\ \A i \in Pos({"worktree_remove"}) :
              /\ log[i].a = TargetPath
              /\ log[i].dir # TargetPath
              /\ OtherIdx # {}
              /\ log[i].dir = ExpectedGitDir
        /\ OtherIdx = {} =>
              /\ Pos({"worktree_remove"}) = {}
              /\ (pc = "done" /\ Accepted("confirm")) => result = "err"

C3_Witness ==
    /\ HasTarget
    /\ \E i \in Pos({"worktree_remove"}) :
          /\ log[i].out = "ok"
          /\ ProtectedOtherIdx # {}
          /\ MinOf(ProtectedOtherIdx) # MinOf(OtherIdx)

\* C4: no run of Remove issues `git branch -d` or `git branch -D` for a
\* protected name (main, master, dev, develop), whatever the operator answers.
C4_ProtectedNeverDeleted ==
    op = "remove" =>
        /\ \A i \in Pos(BranchDeletions) : log[i].a \notin ProtectedNames
        /\ (HasTarget /\ Unwrap(target_worktree).branch \in ProtectedRefs)
              => Pos(BranchDeletions) = {}

C4_Witness ==
    /\ HasTarget
    /\ Unwrap(target_worktree).branch = Some(Ref(S("main")))
    /\ \E i \in Pos({"worktree_remove"}) : log[i].out = "ok"
    /\ pc = "done" /\ result = "ok"

\* C5: for a non-protected branch the safe delete comes first, the forced
\* delete only after a "not fully merged" failure and a y / yes answer, and
\* after any failed branch deletion Remove still runs the postRemove hooks
\* and returns success.
BranchDeletionFailed == \E i \in Pos(BranchDeletions) : log[i].out # "ok"

C5_DeletionFailureNonFatal ==
    (HasTarget /\ Unwrap(target_worktree).branch \in {Some(Ref(S("a"))), Some(Ref(S("b")))}) =>
        /\ \A i \in Pos({"branch_D"}) :
              \E j, k \in 1..(i - 1) :
                  /\ j < k
                  /\ log[j].cmd = "branch_d" /\ log[j].out = "not fully merged"
                  /\ log[k].cmd = "prompt" /\ log[k].a = "force"
                  /\ log[k].b \in YesAnswers
        /\ (BranchDeletionFailed /\ pc = "done")
              => /\ result = "ok"
                 /\ Pos({"execute_hooks"}) # {}

\* C6: in a confirmed Remove the worktree removal precedes the branch
\* deletion, which precedes the change of directory (made exactly when the
\* current directory was inside the removed worktree), which precedes the
\* postRemove hooks; the hooks get the cleaned branch name and the removed
\* path; after a failed removal nothing else happens.
C6_RemoveOrder ==
    op = "remove" =>
        LET rm == Pos({"worktree_remove"})
            bd == Pos(BranchDeletions) \cup {i \in Pos({"prompt"}) : log[i].a = "force"}
            cd == Pos({"chdir"})
            hk == Pos({"execute_hooks", "hook"})
        IN /\ Before(rm, bd \cup cd \cup hk)
           /\ Before(bd, cd \cup hk)
           /\ Before(cd, hk)
           /\ (bd \cup cd \cup hk # {}) => \E i \in rm : log[i].out = "ok"
           /\ \A i \in rm : log[i].out = "fail" =>
                 i = Len(log) /\ pc = "done" /\ result = "err"
           /\ \A i \in cd : log[i].a = Unwrap(project_root)
           /\ \A i \in hk :
                 /\ path_starts_with(CwdAtStart, TargetPath) <=> cd # {}
                 /\ cd # {} => cwd = Unwrap(project_root)
           /\ \A i \in Pos({"execute_hooks"}) :
                 /\ log[i].a = "postRemove"
                 /\ log[i].b.worktreePath = path_to_str(TargetPath)
                 /\ \A n \in BranchNames :
                       Unwrap(target_worktree).branch = Some(Ref(n))
                           => log[i].b.branchName = n
           /\ \A i \in Pos({"hook"}) : log[i].b = "postRemove"

C6_Witness ==
    /\ op = "remove" /\ pc = "done" /\ result = "ok"
    /\ Pos({"branch_d"}) # {}
    /\ Pos({"chdir"}) # {}
    /\ Pos({"hook"}) # {}
    /\ Unwrap(target_worktree).branch = Some(Ref(S("a")))

\* C7: Remove(name) takes the first listed worktree whose branch is
\* refs/heads/<name>; only when there is none, the first one whose directory
\* is called <name>; when neither exists it fails after showing the available
\* worktrees, without any mutation.
BranchMatchIdx(n) == {i \in DOMAIN worktrees : worktrees[i].branch = Some(Ref(n))}
DirMatchIdx(n) ==
    {i \in DOMAIN worktrees :
        Len(worktrees[i].path) > 0 /\ worktrees[i].path[Len(worktrees[i].path)] = n}
ResolvedByName == op = "remove" /\ IsSome(branch_name) /\ Pos({"worktree_list"}) # {}

TargetByName(n) ==
    /\ BranchMatchIdx(n) # {}
          => target_worktree = Some(worktrees[MinOf(BranchMatchIdx(n))])
    /\ (BranchMatchIdx(n) = {} /\ DirMatchIdx(n) # {})
          => target_worktree = Some(worktrees[MinOf(DirMatchIdx(n))])

NotFoundFails ==
    /\ pc = "done" /\ result = "err"
    /\ Pos({"show_available"}) # {}
    /\ Pos(RemoveMutations) = {}

\* C7 as stated (no exception for an empty listing)
C7_ResolveByNameAsStated ==
    ResolvedByName =>
        /\ TargetByName(Unwrap(branch_name))
        /\ (BranchMatchIdx(Unwrap(branch_name)) = {} /\ DirMatchIdx(Unwrap(branch_name)) = {})
              => NotFoundFails

\* C7 amended: the failure is for a non-empty listing; with nothing listed
\* Remove returns success, again without any mutation.
C7_ResolveByName ==
    ResolvedByName =>
        /\ TargetByName(Unwrap(branch_name))
        /\ (BranchMatchIdx(Unwrap(branch_name)) = {} /\ DirMatchIdx(Unwrap(branch_name)) = {})
              => IF Len(worktrees) > 0 THEN NotFoundFails
                 ELSE /\ pc = "done" /\ result = "ok"
                      /\ Pos(RemoveMutations \cup {"show_available"}) = {}

C7_Witness ==
    /\ ResolvedByName
    /\ BranchMatchIdx(Unwrap(branch_name)) # {}
    /\ DirMatchIdx(Unwrap(branch_name)) # {}
    /\ MinOf(DirMatchIdx(Unwrap(branch_name))) < MinOf(BranchMatchIdx(Unwrap(branch_name)))
    /\ \E i \in Pos({"worktree_remove"}) : log[i].out = "ok"

\* C8: Remove without a branch argument targets the listed worktree the
\* current directory belongs to (the deepest listed ancestor of it), and
\* fails when a non-empty listing has no such ancestor.
AncestorIdx == {i \in DOMAIN worktrees : path_starts_with(CwdAtStart, worktrees[i].path)}

C8_CurrentWorktreeIsTarget ==
    (op = "remove" /\ ~IsSome(branch_name) /\ Pos({"worktree_list"}) # {}
     /\ Len(worktrees) > 0)
        => /\ AncestorIdx = {} => pc = "done" /\ result = "err"
           /\ AncestorIdx # {} =>
                 /\ IsSome(target_worktree)
                 /\ \A i \in AncestorIdx : Len(worktrees[i].path) <= Len(TargetPath)

\* C9: after the fetch Add issues exactly one `git worktree add`; its form
\* follows (local_exists, remote_exists): local => existing branch, no -b;
\* else remote => -b <branch> origin/<branch>; else => --no-track
\* -b <branch> origin/<main branch>.
FetchedAt == {j \in Pos({"fetch"}) : log[j].out = "ok"}

C9_AddStrategy ==
    op = "add" =>
        /\ Cardinality(Pos({"worktree_add"})) <= 1
        /\ (pc \in {"hooks", "done"} /\ FetchedAt # {})
              => Cardinality(Pos({"worktree_add"})) = 1
        /\ \A i \in Pos({"worktree_add"}) :
              LET args == log[i].a
                  name == Unwrap(branch_name)
              IN /\ \E j \in FetchedAt : j < i
                 /\ args.path = add.target_path
                 /\ add.local_exists
                       => /\ args.b = NoneV
                          /\ args.commitish = name
                          /\ ~args.no_track
                 /\ (~add.local_exists /\ add.remote_exists)
                       => /\ args.b = Some(name)
                          /\ args.commitish = <<"origin/">> \o name
                          /\ ~args.no_track
                 /\ (~add.local_exists /\ ~add.remote_exists)
                       => /\ args.b = Some(name)
                          /\ args.commitish = <<"origin/">> \o add.main_branch
                          /\ find_config.found
                                => add.main_branch = Unwrap(find_config.config).main_branch
                          /\ args.no_track

C9_Witness ==
    /\ op = "add"
    /\ add.local_exists /\ add.remote_exists
    /\ \E i \in Pos({"worktree_add"}) : log[i].out = "ok"

\* C10: Add queries branch existence, adds the worktree and runs hooks only
\* after a successful `git fetch origin`; a failed fetch ends the run with an
\* error and nothing after it.
C10_FetchFirst ==
    op = "add" =>
        /\ \A i \in Pos({"branch_list", "branch_list_r", "worktree_add",
                         "execute_hooks", "hook"}) :
              \E j \in FetchedAt : j < i
        /\ \A j \in Pos({"fetch"}) :
              log[j].out = "fail" => j = Len(log) /\ pc = "done" /\ result = "err"

C10_Witness ==
    /\ op = "add" /\ pc = "done" /\ result = "err"
    /\ \E j \in Pos({"fetch"}) : log[j].out = "fail"

\* C11: once `git worktree add` / `git worktree remove` has succeeded and the
\* command has reached its hook runner, the command ends with success, every
\* configured command of the event has run in configured order (failed or
\* not), and a created worktree is still registered.
HookEvent == IF op = "add" THEN "postAdd" ELSE "postRemove"
HooksRun == SelectSeq(log, LAMBDA e : e.cmd = "hook")
HookRunnerReached ==
    /\ pc = "done"
    /\ \E i \in Pos({"worktree_remove", "worktree_add"}) : log[i].out = "ok"
    /\ Pos({"execute_hooks"}) # {}

C11_HooksNeverAbort ==
    HookRunnerReached =>
        /\ result = "ok"
        /\ \A i \in Pos({"execute_hooks"}) :
              LET configured == hook_commands(HookEvent).commands
              IN /\ Len(HooksRun) = Len(configured)
                 /\ \A k \in DOMAIN configured :
                       HooksRun[k].a = substitute(configured[k], log[i].b.branchName,
                                                  log[i].b.worktreePath)
        /\ op = "add" =>
              \E i \in DOMAIN gitWorktrees : gitWorktrees[i].path = add.target_path

\* C12: after an Add(b) that ended with success, every later Add(b) whose
\* branch query answered takes the "local exists" form (`git worktree add
\* <path> <b>`, no -b), no later `git worktree add` succeeds, and git's
\* worktree entries stay exactly those the successful run left.
SucceededExits == {e \in Pos({"exit"}) : log[e].a = "ok"}

LastExit == CHOOSE e \in Pos({"exit"}) : \A f \in Pos({"exit"}) : f <= e
RerunEvents == {i \in DOMAIN log : i > LastExit}
RerunUndisturbed ==
    \A i \in RerunEvents :
        /\ log[i].cmd \in {"fetch", "branch_list", "branch_list_r", "branch_d", "branch_D",
                         "chdir", "execute_hooks"} => log[i].out = "ok"
        /\ log[i].cmd = "prompt" => log[i].b \in YesAnswers
InterruptedAt(step) ==
    /\ log[LastExit].a = "interrupted"
    /\ log[LastExit - 1].a = step

C13_Resumable ==
    (Pos({"exit"}) # {} /\ pc = "done" /\ result # "interrupted" /\ RerunUndisturbed) =>
        /\ (op = "remove" /\ InterruptedAt("branch")
            /\ log[LastExit].b.branch_display \in BranchNames) =>
              /\ result = "ok"
              /\ log[LastExit].b.branch_display \notin ProtectedNames
                    => \E i \in RerunEvents :
                          /\ log[i].cmd = "branch_d"
                          /\ log[i].a = log[LastExit].b.branch_display
              /\ \E i \in RerunEvents : log[i].cmd = "execute_hooks"
        /\ (op = "add" /\ InterruptedAt("hooks")) =>
              /\ result = "ok"
              /\ \E i \in RerunEvents : log[i].cmd = "execute_hooks"

\* C14: the path given to `git worktree add` is <worktrees-dir>/<branch>,
\* where worktrees-dir is the configuration's worktrees_path when it has one
\* and otherwise the sibling <root-name>-worktrees of the project root this
\* invocation resolved, whatever project_path the configuration records.
SiblingWorktreesDir(root) ==
    Append(SubSeq(root, 1, Len(root) - 1), root[Len(root)] \o <<WORKTREES_SUFFIX>>)
ExplicitWorktreesPath ==
    IF find_config.found THEN Unwrap(find_config.config).worktrees_path ELSE NoneV
ExpectedWorktreesDir ==
    IF IsSome(ExplicitWorktreesPath) THEN Unwrap(ExplicitWorktreesPath)
    ELSE SiblingWorktreesDir(Unwrap(project_root))

C14_WorktreePath ==
    op = "add" =>
        \A i \in Pos({"worktree_add"}) :
            log[i].out = "ok"
                => log[i].a.path = Append(ExpectedWorktreesDir, Unwrap(branch_name))

\* C15: with the configuration file in the main checkout /p/main (none in
\* /p) and Add(b) run from /p/main, the worktree is created at /p/<b>, and
\* the run succeeds unless git itself fails.
ConfigInMainCheckout ==
    /\ op = "add"
    /\ CwdAtStart = PMain
    /\ gitWorktrees[1].path = PMain
    /\ config_exists(PMain) /\ ~config_exists(P)

C15_ConfigInMain ==
    ConfigInMainCheckout =>
        /\ \A i \in Pos({"worktree_add"}) :
              log[i].out = "ok" => log[i].a.path = Append(P, Unwrap(branch_name))
        /\ (pc = "done" /\ \A i \in DOMAIN log : log[i].out \in {"ok"}) => result = "ok"

\* C16: in a List that looks pull requests up, a lookup that fails leaves its
\* worktree displayed without PR info, every worktree is displayed in listing
\* order, every entry that is not bare is looked up exactly once, a bare
\* entry never is, and the run ends with success.
LookupsOf(k) == {i \in Pos({"pr_lookup"}) : log[i].b = k}
ResultsOf(k) == {i \in Pos({"pr_result"}) : log[i].b = k}
Displayed == SelectSeq(log, LAMBDA e : e.cmd = "display")

C16_LookupFailureSwallowed ==
    (op = "list" /\ Pos({"pr_lookup"}) # {}) =>
        /\ \A k \in DOMAIN worktrees : worktrees[k].bare => LookupsOf(k) = {}
        /\ \A k \in DOMAIN worktrees : Cardinality(LookupsOf(k)) <= 1
        /\ pc = "done" =>
              /\ result = "ok"
              /\ Len(Displayed) = Len(worktrees)
              /\ \A k \in DOMAIN worktrees :
                    /\ ~worktrees[k].bare => Cardinality(LookupsOf(k)) = 1
                    /\ IsSome(worktrees[k].branch) =>
                          Displayed[k].a = clean_branch_name(Unwrap(worktrees[k].branch))
                    /\ \A i \in ResultsOf(k) :
                          /\ log[i].out = "err" => Displayed[k].b = NoneV
                          /\ log[i].out = "found" => IsSome(Displayed[k].b)

C16_Witness ==
    /\ op = "list" /\ pc = "done" /\ result = "ok"
    /\ \E i \in ResultsOf(1) : log[i].out = "err"
    /\ \E i \in ResultsOf(2) : log[i].out = "found"
    /\ IsSome(Displayed[2].b)

\* C17: the lookups of different branches are in flight concurrently:
\* while the answer of one lookup is awaited and a later worktree still needs
\* its lookup, that lookup can be sent.
AwaitedLookup == op = "list" /\ pc = "await"
LaterLookups ==
    {k \in DOMAIN worktrees : k > listRun.next /\ needs_pr_lookup(worktrees[k])}

C17_LookupsConcurrent ==
    (AwaitedLookup /\ LaterLookups # {}) => ENABLED ListLookupStart

\* C18: find_config searches in strict priority order and the first match
\* wins: the local walk from the current directory up to the root, at each
\* level <dir>/<config-file> and then <dir>/main/<config-file>, nearer levels
\* first; then the registry file named after the origin URL; then the first
\* registry config whose project_path is an ancestor of the current directory.
\* A later strategy is consulted only when every earlier one found nothing,
\* and when none matches the result is "not found", not an error.
FindConfigCalls == {i \in DOMAIN log : log[i].cmd = "find_config"}
LocalCandidates(d) ==
    [k \in 1..(2 * (Len(d) + 1)) |->
        IF k % 2 = 1
        THEN join(ancestors(d)[(k + 1) \div 2], CONFIG_FILENAME)
        ELSE join(join(ancestors(d)[(k + 1) \div 2], S("main")), CONFIG_FILENAME)]
LocalHits(d) ==
    {k \in DOMAIN LocalCandidates(d) :
        \E f \in configFiles : join(f.dir, CONFIG_FILENAME) = LocalCandidates(d)[k]}
OriginNamed(d) ==
    {k \in DOMAIN globalConfig :
        /\ IsSome(get_remote_origin_url(d))
        /\ globalConfig[k].name = generate_config_filename(Unwrap(get_remote_origin_url(d)))}
ContainingProjects(d) ==
    {k \in DOMAIN globalConfig :
        /\ IsSome(globalConfig[k].content)
        /\ IsSome(Unwrap(globalConfig[k].content).project_path)
        /\ path_starts_with(d, Unwrap(Unwrap(globalConfig[k].content).project_path))}
Lowest(K) == CHOOSE k \in K : \A j \in K : k <= j
ExpectedConfigPath(d) ==
    IF LocalHits(d) # {} THEN Some(LocalCandidates(d)[Lowest(LocalHits(d))])
    ELSE IF OriginNamed(d) # {}
    THEN Some(join(PROJECTS_DIR, globalConfig[Lowest(OriginNamed(d))].name))
    ELSE IF ContainingProjects(d) # {}
    THEN Some(join(PROJECTS_DIR, globalConfig[Lowest(ContainingProjects(d))].name))
    ELSE NoneV

C18_FindConfigPriority ==
    \A i \in FindConfigCalls :
        /\ log[i].b.ok =>
              /\ log[i].b.found = IsSome(ExpectedConfigPath(log[i].dir))
              /\ log[i].b.path = ExpectedConfigPath(log[i].dir)
        /\ ~IsSome(ExpectedConfigPath(log[i].dir)) => log[i].b.ok

\* a call that fell through the local walk and the origin's file and took the
\* first of two registry configs that contain the current directory
C18_Witness ==
    \E i \in FindConfigCalls :
        /\ LocalHits(log[i].dir) = {}
        /\ OriginNamed(log[i].dir) = {}
        /\ Cardinality(ContainingProjects(log[i].dir)) > 1
        /\ log[i].b.found
        /\ log[i].b.path = Some(join(PROJECTS_DIR, globalConfig[1].name))

\* C19: generate_config_filename is URL-shape independent: for every
\* owner/repo the SSH form and the HTTPS form of the same GitHub repository
\* yield the identical filename github_<owner>_<repo>.jsonc, and the two forms
\* of a Bitbucket Cloud repository yield bitbucket_<workspace>_<repo>.jsonc
\* (the names as they appear in a filename: lower case, . written as _).
FilenameCalls == {i \in DOMAIN log : log[i].cmd = "generate_config_filename"}
SshCalls == {i \in FilenameCalls : str_starts_with(log[i].a, GIT_AT)}
InFilename(name) ==
    [k \in DOMAIN name |->
        CASE name[k] = "N" -> "n"
          [] name[k] = "." -> "_"
          [] OTHER -> name[k]]
HostPrefix(host) == IF host = GITHUB_HOST THEN "github_" ELSE "bitbucket_"

C19_UrlShapeIndependent ==
    \A i \in SshCalls :
        \A host \in CloudHosts, owner, repo \in Names :
            log[i].a = SshUrl(host, owner, repo)
            => /\ log[i].b = <<HostPrefix(host)>> \o InFilename(owner) \o <<"_">>
                             \o InFilename(repo) \o <<".jsonc">>
               /\ \A j \in FilenameCalls :
                     log[j].a = HttpsUrl(host, owner, repo) => log[j].b = log[i].b

\* both forms of one GitHub repository have been given to the function
C19_Witness ==
    \E i, j \in FilenameCalls :
        \E owner, repo \in Names :
            /\ log[i].a = SshUrl(GITHUB_HOST, owner, repo)
            /\ log[j].a = HttpsUrl(GITHUB_HOST, owner, repo)
            /\ log[i].b = log[j].b

\* C20: given a project root X (containing a .git entry, or an immediate
\* subdirectory that does) and a worktree at X-worktrees/branch,
\* find_project_root_from(start) returns X for every start path equal to or
\* at any depth below X-worktrees/branch; the result depends only on start,
\* not on how deep it is nor on any other state of the process.
LocateCalls == {i \in DOMAIN log : log[i].cmd = "find_project_root_from"}
IsProjectRoot(x) == git_exists(x) \/ (x \in dirs /\ has_git_subdir(x))
IsWorktree(path) ==
    path \in dirs /\ \E k \in DOMAIN gitWorktrees : gitWorktrees[k].path = path

C20_RootFromWorktree ==
    \A i \in LocateCalls :
        (IsProjectRoot(P) /\ IsWorktree(PWA) /\ path_starts_with(log[i].a, PWA))
        => log[i].b = Some(P)

\* C21: when find_project_root_from cannot resolve a project it fails with a
\* "not a project" error that tells "inside a git repository that is not
\* managed" from "not inside any git repository": a refusal inside a
\* repository and a refusal outside every repository are different outcomes.
RefusedLocates == {i \in LocateCalls : ~IsSome(log[i].b)}
InsideGitRepo(d) == IsSome(nearest_git(d))

C21_NotAProjectDistinguished ==
    \A i, j \in RefusedLocates :
        (InsideGitRepo(log[i].dir) /\ ~InsideGitRepo(log[j].dir))
        => log[i].out # log[j].out

\* C22: when `gwt init` fails at any step (undetectable provider, failed
\* clone, existing target directory without --force, failed default-branch
\* detection or rename), no configuration file has been written: the config
\* is saved only after every earlier step succeeded, and an existing
\* directory is deleted only when --force was given.
ConfigWritten == configFiles # {} \/ globalConfig # <<>>
StepSucceeded(step) == \E i \in Pos({step}) : log[i].out = "ok"
StepFailed == \E i \in DOMAIN log : log[i].out = "err" /\ log[i].cmd # "save"

C22_InitFailureWritesNothing ==
    op = "init" =>
        /\ result = "err" => ~ConfigWritten
        /\ ConfigWritten =>
              /\ ~StepFailed
              /\ StepSucceeded("detect_provider")
              /\ StepSucceeded("clone")
              /\ StepSucceeded("default_branch")
              /\ StepSucceeded("rename")
              /\ join(cwd, initRun.final_dir_name) \in dirs
        /\ Pos({"remove_dir_all"}) # {} => initRun.force

\* a run that removed a directory in the way, cloned, and failed at the rename
C22_Witness ==
    /\ op = "init" /\ pc = "done" /\ result = "err"
    /\ StepSucceeded("remove_dir_all")
    /\ StepSucceeded("clone")
    /\ \E i \in Pos({"rename"}) : log[i].out = "err"
    /\ ~ConfigWritten

\* C23: the parser promotes a partial entry to a Worktree record only when
\* both a `worktree <path>` line and a later `HEAD <hash>` line of the same
\* block were seen: the output has exactly one record per block that has a
\* HEAD line, in input order, every block lacking a HEAD line (a truncated
\* trailing block in particular) is dropped, branch is absent unless a
\* `branch` line was seen and bare is false unless a `bare` line was seen in
\* that block.
IsLine(k, prefix) ==
    Len(parser.output[k]) > 0 /\ parser.output[k][1] = prefix
BlockStarts == {k \in DOMAIN parser.output : IsLine(k, WORKTREE_PREFIX)}
BlockLines(k) ==
    {m \in DOMAIN parser.output :
        m > k /\ \A n \in BlockStarts : n > k => m < n}
BlockHas(k, prefix) == \E m \in BlockLines(k) : IsLine(m, prefix)
BlocksWithHead == {k \in BlockStarts : BlockHas(k, HEAD_PREFIX)}
RecordOf(k) == parser.worktrees[Cardinality({j \in BlocksWithHead : j <= k})]

C23_RecordPerBlockWithHead ==
    (op = "parse_worktree_list" /\ pc \in {"parsed", "done"}) =>
        /\ Len(parser.worktrees) = Cardinality(BlocksWithHead)
        /\ \A k \in BlocksWithHead :
              /\ RecordOf(k).path = path_from_str(Tail(parser.output[k]))
              /\ \E m \in BlockLines(k) :
                    parser.output[m] = <<HEAD_PREFIX>> \o RecordOf(k).head
              /\ IsSome(RecordOf(k).branch) <=> BlockHas(k, BRANCH_PREFIX)
              /\ IsSome(RecordOf(k).branch) =>
                    \E m \in BlockLines(k) :
                        parser.output[m] = <<BRANCH_PREFIX>> \o Unwrap(RecordOf(k).branch)
              /\ RecordOf(k).bare <=> \E m \in BlockLines(k) : parser.output[m] = BARE_LINE

\* an output whose last block was cut before its HEAD line, after a complete one
C23_Witness ==
    /\ op = "parse_worktree_list" /\ pc = "parsed"
    /\ Cardinality(BlockStarts) = 2
    /\ Cardinality(BlocksWithHead) = 1
    /\ \E k \in BlockStarts \ BlocksWithHead : \A j \in BlocksWithHead : j < k
    /\ Len(parser.worktrees) = 1

\* C24: for all well-formed `worktree list --porcelain` outputs, parsing and
\* then looking a record up by branch name or by directory name returns the
\* same record as a naive line scan of the input; lines that are none of
\* `worktree `, `HEAD `, `branch `, `bare`, and HEAD/branch/bare lines before
\* the first `worktree` line, change neither the current partial entry nor
\* the output.
LineEvents == Pos({"line"})
StateBefore(i) ==
    IF i - 1 \in LineEvents THEN log[i - 1].b
    ELSE [current_worktree |-> NoneV, worktrees |-> <<>>]
Understood(line) ==
    \/ Len(line) > 0 /\ line[1] \in {WORKTREE_PREFIX, HEAD_PREFIX, BRANCH_PREFIX}
    \/ line = BARE_LINE
BeforeFirstBlock(i) ==
    /\ ~(Len(log[i].a) > 0 /\ log[i].a[1] = WORKTREE_PREFIX)
    /\ \A j \in LineEvents :
          j < i => ~(Len(log[j].a) > 0 /\ log[j].a[1] = WORKTREE_PREFIX)
IgnoredLine(i) == ~Understood(log[i].a) \/ BeforeFirstBlock(i)

\* the naive scan: the block of the first line that names the branch or the
\* directory, read field by field
BlockOf(m) == CHOOSE k \in BlockStarts : k <= m /\ \A n \in BlockStarts : n <= m => n <= k
ValueOf(k, prefix) ==
    Tail(parser.output[CHOOSE m \in BlockLines(k) : IsLine(m, prefix)])
ScannedRecord(k) ==
    [path |-> path_from_str(Tail(parser.output[k])),
     head |-> ValueOf(k, HEAD_PREFIX),
     branch |-> IF BlockHas(k, BRANCH_PREFIX) THEN Some(ValueOf(k, BRANCH_PREFIX)) ELSE NoneV,
     bare |-> \E m \in BlockLines(k) : parser.output[m] = BARE_LINE]
FirstOf(K) == IF K = {} THEN NoneV ELSE Some(ScannedRecord(MinOf(K)))
ScanByBranch(name) ==
    FirstOf({k \in BlocksWithHead :
                \E m \in BlockLines(k) :
                    parser.output[m] = <<BRANCH_PREFIX, REFS_HEADS>> \o name})
ScanByDirectory(name) ==
    FirstOf({k \in BlocksWithHead : last_segment(Tail(parser.output[k])) = name})

C24_ParseThenLookupIsScan ==
    op = "parse_worktree_list" =>
        /\ \A i \in LineEvents : IgnoredLine(i) => log[i].b = StateBefore(i)
        /\ parser.output \in WellFormedOutputs =>
              /\ \A i \in Pos({"find_by_branch_name"}) : log[i].b = ScanByBranch(log[i].a)
              /\ \A i \in Pos({"find_by_path_name"}) : log[i].b = ScanByDirectory(log[i].a)

\* a locked worktree's record found by its directory name, behind the main one
C24_Witness ==
    /\ op = "parse_worktree_list" /\ pc = "done"
    /\ parser.output \in WellFormedOutputs
    /\ \E i \in LineEvents : log[i].a = LOCKED_LINE /\ IsSome(log[i].b.current_worktree)
    /\ \E i \in Pos({"find_by_path_name"}) :
          /\ IsSome(log[i].b)
          /\ Unwrap(log[i].b) = parser.worktrees[2]

\* what is on disk, read off the tree: the kind of <d>/.git and the
\* directory its first gitdir line names
DotGitIsFile(d) ==
    /\ d \in dirs
    /\ \/ \E f \in gitFiles : f.dir = d
       \/ \E i \in 2..Len(gitWorktrees) : gitWorktrees[i].path = d
DotGitIsDir(d) ==
    d \in dirs /\ ~DotGitIsFile(d) /\ Len(gitWorktrees) > 0 /\ gitWorktrees[1].path = d
GitdirTarget(d) ==
    IF \E f \in gitFiles : f.dir = d
    THEN LET content == (CHOOSE f \in gitFiles : f.dir = d).content
         IN  IF content = Some(<<GitdirLine(LiveGitdir)>>) THEN Some(LiveGitdir)
             ELSE IF content \in {Some(<<GitdirLine(GoneGitdir) \o <<"\n">> >>),
                                  Some(<<S("x"), GitdirLine(GoneGitdir),
                                         GitdirLine(LiveGitdir)>>)}
             THEN Some(GoneGitdir)
             ELSE NoneV
    ELSE Some(<<S("p"), S("main"), S(".git"), S("worktrees"), S("a")>>)
TargetOnDisk(d) ==
    /\ IsSome(GitdirTarget(d))
    /\ \/ Unwrap(GitdirTarget(d)) \in dirs
       \/ ~(\E f \in gitFiles : f.dir = d) /\ PMain \in dirs
Candidates(root) == IF root \in dirs THEN {root} \cup subdirs(root) ELSE {}

\* C25: is_orphaned_worktree(dir) is false for any directory without a `.git`
\* file (absent, or a directory), false for a `.git` file that is unreadable
\* or has no `gitdir: ` line, false when the gitdir target exists, and true
\* only when `.git` is a file whose gitdir target is absent on disk.
C25_OrphanedOnlyWhenTargetAbsent ==
    \A i \in Pos({"is_orphaned_worktree"}) :
        /\ ~DotGitIsFile(log[i].a) => log[i].b = FALSE
        /\ DotGitIsFile(log[i].a) /\ ~IsSome(GitdirTarget(log[i].a)) => log[i].b = FALSE
        /\ DotGitIsFile(log[i].a) /\ TargetOnDisk(log[i].a) => log[i].b = FALSE
        /\ log[i].b = TRUE =>
              /\ DotGitIsFile(log[i].a)
              /\ IsSome(GitdirTarget(log[i].a))
              /\ ~TargetOnDisk(log[i].a)

\* a .git file whose first gitdir line, behind another line, names a
\* directory that is gone: reported orphaned
C25_Witness ==
    \E i \in Pos({"is_orphaned_worktree"}) :
        /\ log[i].b = TRUE
        /\ GitFile(log[i].a, Some(<<S("x"), GitdirLine(GoneGitdir),
                                    GitdirLine(LiveGitdir)>>)) \in gitFiles

\* C26: find_existing_worktree(root) returns a directory whose `.git` is a
\* directory only when neither root nor any immediate subdirectory has a
\* `.git` file; whenever a candidate has a `.git` file the result is such a
\* candidate; it fails only when no candidate has a `.git` entry at all.
C26_WorktreePreferred ==
    \A i \in Pos({"find_existing_worktree"}) :
        LET fileCandidates == {c \in Candidates(log[i].a) : DotGitIsFile(c)}
            dirCandidates == {c \in Candidates(log[i].a) : DotGitIsDir(c)}
        IN  /\ IsSome(log[i].b) /\ DotGitIsDir(Unwrap(log[i].b)) => fileCandidates = {}
            /\ fileCandidates # {} =>
                  IsSome(log[i].b) /\ Unwrap(log[i].b) \in fileCandidates
            /\ ~IsSome(log[i].b) => fileCandidates \cup dirCandidates = {}
            /\ IsSome(log[i].b) => Unwrap(log[i].b) \in fileCandidates \cup dirCandidates

\* the root is the main repository and a subdirectory is a worktree: the
\* worktree is returned
C26_Witness ==
    \E i \in Pos({"find_existing_worktree"}) :
        /\ DotGitIsDir(log[i].a)
        /\ IsSome(log[i].b)
        /\ Unwrap(log[i].b) # log[i].a
        /\ DotGitIsFile(Unwrap(log[i].b))

\* C27: find_valid_git_directory(root) never returns a directory for which
\* is_orphaned_worktree is true, and it succeeds whenever root or an immediate
\* subdirectory is a non-orphaned candidate (a `.git` directory, or a `.git`
\* file whose gitdir target exists), including when root itself is a
\* non-orphaned worktree whose `.git` is a file.
C27_ValidDirectoryFound ==
    \A i \in Pos({"find_valid_git_directory"}) :
        /\ IsSome(log[i].b) =>
              ~(DotGitIsFile(Unwrap(log[i].b)) /\ IsSome(GitdirTarget(Unwrap(log[i].b)))
                /\ ~TargetOnDisk(Unwrap(log[i].b)))
        /\ (\E c \in Candidates(log[i].a) :
               DotGitIsDir(c) \/ (DotGitIsFile(c) /\ TargetOnDisk(c)))
           => IsSome(log[i].b)

\* C28: Remove issues a branch deletion only for a branch the removed
\* worktree actually had checked out: when the target worktree is in
\* detached-HEAD state (no branch field), no `git branch -d` or `-D` is
\* invoked, and the branchName handed to the postRemove hooks is not passed
\* off as a branch to git.
C28_BranchDeletionOnlyForCheckedOut ==
    op = "remove" =>
        \A i \in Pos({"branch_d", "branch_D"}) :
            /\ IsSome(target_worktree)
            /\ IsSome(Unwrap(target_worktree).branch)
            /\ log[i].a = clean_branch_name(Unwrap(Unwrap(target_worktree).branch))

\* C29: the only hook event that Remove ever fires is postRemove, and only
\* after the git worktree removal succeeded; the commands configured under
\* preRemove are never executed by any run of Remove (nor by Add or List),
\* before or after the removal.
HookEvents == Pos({"hook"})
C29_OnlyPostRemoveAfterRemoval ==
    /\ op = "remove" =>
          /\ \A i \in Pos({"execute_hooks"}) :
                /\ log[i].a = "postRemove"
                /\ \E j \in Pos({"worktree_remove"}) : j < i /\ log[j].out = "ok"
          /\ \A i \in HookEvents :
                /\ log[i].b = "postRemove"
                /\ \E j \in Pos({"worktree_remove"}) : j < i /\ log[j].out = "ok"
    /\ op \in {"remove", "add", "list"} =>
          \A i \in HookEvents :
              /\ log[i].b # "preRemove"
              /\ ~str_starts_with(log[i].a, HookPreRemove[1])

\* a removal under a configuration that names a preRemove command: the two
\* postRemove commands ran, after the worktree was removed
C29_Witness ==
    /\ op = "remove" /\ pc = "done"
    /\ find_config.ok /\ find_config.found
    /\ IsSome(Unwrap(find_config.config).hooks)
    /\ Unwrap(Unwrap(find_config.config).hooks).pre_remove = Some(<<HookPreRemove>>)
    /\ \E i \in HookEvents : str_starts_with(log[i].a, HookPostRemove2[1])

\* C30: the global-registry filename identifies the repository:
\* generate_config_filename maps two URLs to the same filename only when they
\* denote the same repository (same host, same owner, same repository name);
\* owner 'a_b' / repo 'c' and owner 'a' / repo 'b_c', or names differing only
\* in letter case, never share a filename.
Repositories ==
    (CloudHosts \X Names \X Names) \cup LongNamedRepos
    \cup {<<GITLAB_HOST, S("o"), S("o")>>}
SameRepository(u, v) ==
    \/ u = v
    \/ \E t \in Repositories :
          {u, v} \subseteq {SshUrl(t[1], t[2], t[3]), HttpsUrl(t[1], t[2], t[3])}
C30_FilenameIdentifiesRepository ==
    \A i \in FilenameCalls, j \in FilenameCalls :
        log[i].b = log[j].b => SameRepository(log[i].a, log[j].a)

====
